---- MODULE Spec2Model ----
(***************************************************************************)
(* VA Dashboard: the relational store with its row-level-security         *)
(* policies, the browser sessions of the dashboard (tenant list, tenant   *)
(* detail with its Cycles and Intake sections) and the cycle-start route. *)
(*                                                                         *)
(* A database statement is one atomic step.  It fails exactly when a      *)
(* policy, a foreign key, a unique constraint or a column type refuses    *)
(* it; outages of the hosted database are not modelled.  A handler that   *)
(* awaits two statements is two steps, so handlers interleave between     *)
(* their statements.                                                       *)
(***************************************************************************)
EXTENDS Integers, Sequences, FiniteSets, TLC

VARIABLES
  db,              \* table name -> set of rows
  nextId,          \* uuid_generate_v4(): the next unused row id
  clock,           \* months elapsed on the wall clock (new Date())
  env,             \* process.env of the server
  page,            \* session -> the page it shows and its tenantId param
  cycles,          \* session -> TenantDetailPage.cycles (cycles with tasks)
  confirmAdvance,  \* session -> CyclesSection.confirmAdvance ({} is null)
  prePauseStatus,  \* session -> CyclesSection.prePauseStatus
  starting,        \* session -> the startCycle awaiting its task insert, if any
  homeRows,        \* session -> AppHomePage.rows
  homeCycles,      \* session -> AppHomePage.cycles (tenant id -> cycle)
  startingCycle,   \* session -> AppHomePage.startingCycle ({} is null)
  intake,          \* session -> TenantDetailPage.intake
  txForm,          \* session -> IntakeSection.txForm ({} is null)
  txSaving,        \* session -> the submitTransaction awaiting its update, if any
  api,             \* route requests between their first write and their second
  pausedFrom,      \* history: cycle id -> stored status just before its pause
  last             \* history: the handler that ran last and what it returned

vars == <<db, nextId, clock, env, page, cycles, confirmAdvance, prePauseStatus,
          starting, homeRows, homeCycles, startingCycle, intake, txForm,
          txSaving, api,
          pausedFrom, last>>

dbVars   == <<db, nextId>>
cycleUi  == <<cycles, confirmAdvance, prePauseStatus, starting>>
homeUi   == <<homeRows, homeCycles, startingCycle>>
intakeUi == <<intake, txForm, txSaving>>

\* ------------------------------------------------------------------ bounds
MaxIds   == 3   \* ids the allocator hands out (one per insert statement)
MaxTicks == 1   \* month roll-overs of the wall clock
MaxApi   == 1   \* cycle-start requests in flight at once
MaxRows  == 2   \* rows of member-scoped tables under direct statements
MaxEvents == 2  \* intake events the form endpoint has taken in
MaxTasks == 2   \* tasks of a checklist that are clicked

\* ------------------------------------------------------------- the universe
None      == "none"
Users     == {"u1", "u2"}
Sessions  == {"s1", "s2"}
SessionUser(s) == IF s = "s1" THEN "u1" ELSE "u2"
TenantIds == {"t1", "t2"}          \* rows of tenants
PathIds   == TenantIds \cup {"t9"} \* what a URL may carry; t9 is no tenant
Tokens    == {"secret", "guess"}

\* ------------------------------------------------------------------ schema
MemberTables ==
  {"entities", "categories", "accounts", "transactions", "budgets", "invoices",
   "leads", "opportunities", "projects", "tasks", "service_engagements",
   "service_cycles", "cycle_tasks", "deliverables", "intake_events",
   "missing_data_alerts"}

RlsTables == {"tenants", "tenant_users"} \cup MemberTables

service_cycle_status ==
  {"collecting", "processing", "reconciling", "reporting", "delivered", "paused"}

intake_status == {"new", "categorized", "posted"}

CYCLE_STATUS_ORDER ==
  <<"collecting", "processing", "reconciling", "reporting", "delivered">>

defaultTasks ==
  <<"Collect statements", "Review intake events", "Categorize transactions",
    "Reconcile to bank", "Run BVA and variances", "Generate report pack",
    "Send insight summary", "Schedule review call">>

\* indexOf of Array.prototype: the 0-based position, -1 when absent
indexOf(seq, x) ==
  IF \E i \in 1..Len(seq) : seq[i] = x
  THEN (CHOOSE i \in 1..Len(seq) : seq[i] = x /\ \A j \in 1..(i - 1) : seq[j] # x) - 1
  ELSE -1

\* ------------------------------------------------------------------- dates
\* A date column holds [y, m, d]; text is a sequence of one-character strings.
Digits == {"0", "1", "2", "3", "4", "5", "6", "7", "8", "9"}

DigitVal(ch) ==
  CASE ch = "0" -> 0 [] ch = "1" -> 1 [] ch = "2" -> 2 [] ch = "3" -> 3
    [] ch = "4" -> 4 [] ch = "5" -> 5 [] ch = "6" -> 6 [] ch = "7" -> 7
    [] ch = "8" -> 8 [] ch = "9" -> 9

DigitChar(n) ==
  CASE n = 0 -> "0" [] n = 1 -> "1" [] n = 2 -> "2" [] n = 3 -> "3"
    [] n = 4 -> "4" [] n = 5 -> "5" [] n = 6 -> "6" [] n = 7 -> "7"
    [] n = 8 -> "8" [] n = 9 -> "9"

\* /^\d{4}-\d{2}-\d{2}$/
MonthRegex(text) ==
  /\ Len(text) = 10
  /\ \A i \in {1, 2, 3, 4, 6, 7, 9, 10} : text[i] \in Digits
  /\ text[5] = "-"
  /\ text[8] = "-"

IsLeap(y) == (y % 4 = 0 /\ y % 100 # 0) \/ y % 400 = 0

DaysIn(y, m) ==
  IF m \in {4, 6, 9, 11} THEN 30
  ELSE IF m = 2 THEN (IF IsLeap(y) THEN 29 ELSE 28)
  ELSE 31

\* The input conversion of a date column: the text of a calendar date, or an error.
DateIn(text) ==
  IF ~MonthRegex(text) THEN [ok |-> FALSE]
  ELSE LET y == 1000 * DigitVal(text[1]) + 100 * DigitVal(text[2])
                + 10 * DigitVal(text[3]) + DigitVal(text[4])
           m == 10 * DigitVal(text[6]) + DigitVal(text[7])
           d == 10 * DigitVal(text[9]) + DigitVal(text[10])
       IN  IF y >= 1 /\ m \in 1..12 /\ d >= 1 /\ d <= DaysIn(y, m)
           THEN [ok |-> TRUE, date |-> [y |-> y, m |-> m, d |-> d]]
           ELSE [ok |-> FALSE]

\* The output conversion of a date column, and date-fns format(_, "yyyy-MM-dd").
DateOut(date) ==
  <<DigitChar(date.y \div 1000), DigitChar((date.y \div 100) % 10),
    DigitChar((date.y \div 10) % 10), DigitChar(date.y % 10), "-",
    DigitChar(date.m \div 10), DigitChar(date.m % 10), "-",
    DigitChar(date.d \div 10), DigitChar(date.d % 10)>>

\* new Date() after `clock` months, taken at the first of the month.
startOfMonth(k) ==
  [y |-> 2026 + ((10 + k) \div 12), m |-> ((10 + k) % 12) + 1, d |-> 1]

\* format(startOfMonth(new Date()), "yyyy-MM-dd") and currentMonthDate()
thisMonth(k) == DateOut(startOfMonth(k))

\* text.startsWith(prefix)
startsWith(text, prefix) ==
  /\ Len(text) >= Len(prefix)
  /\ \A i \in 1..Len(prefix) : text[i] = prefix[i]

\* c.month.startsWith(thisMonth.slice(0, 7))
InThisMonth(monthText, k) == startsWith(monthText, SubSeq(thisMonth(k), 1, 7))

\* ------------------------------------------------------ row-level security
\* A client is the service role (the API routes) or an authenticated user
\* (the browser); auth.uid() is client.uid.
ServiceRole      == [role |-> "service_role", uid |-> None]
Authenticated(u) == [role |-> "authenticated", uid |-> u]

\* policy "tenant_users_select_self": using (user_id = auth.uid())
tenant_users_select_self(client, row) == row.user_id = client.uid

\* is_tenant_member(p_tenant_id): runs as the caller, so it reads tenant_users
\* through the caller's own select policy.
is_tenant_member(d, client, p_tenant_id) ==
  \E tu \in {r \in d["tenant_users"] : tenant_users_select_self(client, r)} :
     tu.tenant_id = p_tenant_id /\ tu.user_id = client.uid

\* create_member_policies(p_table, 'tenant_id'): select and delete have a
\* using clause, insert a with check clause, update both, all the same test.
create_member_policies(d, client, cmd, row) ==
  is_tenant_member(d, client, row.tenant_id)

\* (mutant) every tenant row is readable
tenantsSelectAll(d, client, row) == TRUE

\* policy "tenants_select_member": for select using (is_tenant_member(id))
tenants_select_member(d, client, row) == is_tenant_member(d, client, row.id)

\* (mutant) a policy that lets a user insert a membership of their own
PolicySelfInsert(d, client, tbl, cmd, row) ==
  \/ client.role = "service_role"
  \/ tbl \in MemberTables /\ create_member_policies(d, client, cmd, row)
  \/ tbl = "tenants" /\ cmd = "select" /\ tenants_select_member(d, client, row)
  \/ tbl = "tenant_users" /\ cmd \in {"select", "insert"}
       /\ tenant_users_select_self(client, row)

\* Row-level security is enabled on every table: a command with no policy is
\* refused.  The service role bypasses row-level security.
Policy(d, client, tbl, cmd, row) ==
  IF client.role = "service_role" THEN TRUE
  ELSE IF tbl \in MemberTables THEN create_member_policies(d, client, cmd, row)
  ELSE IF tbl = "tenants" THEN cmd = "select" /\ tenants_select_member(d, client, row)
  ELSE IF tbl = "tenant_users" THEN cmd = "select" /\ tenant_users_select_self(client, row)
  ELSE FALSE

\* -------------------------------------------------------------- constraints
\* references tenants(id) / references service_cycles(id)
ForeignKeys(d, tbl, row) ==
  /\ tbl \in MemberTables \cup {"tenant_users"}
       => \E t \in d["tenants"] : t.id = row.tenant_id
  /\ tbl \in {"cycle_tasks", "deliverables"}
       => \E c \in d["service_cycles"] : c.id = row.service_cycle_id

\* service_cycles: unique (tenant_id, month); tenant_users: unique (tenant_id, user_id)
Unique(d, tbl, row) ==
  /\ tbl = "service_cycles"
       => \A o \in d[tbl] :
            (o.tenant_id = row.tenant_id /\ o.month = row.month) => o.id = row.id
  /\ tbl = "tenant_users"
       => \A o \in d[tbl] :
            (o.tenant_id = row.tenant_id /\ o.user_id = row.user_id) => o = row

\* --------------------------------------------------------------- statements
\* What a statement returns: { data, error } and the database it leaves.
Refused(d, why)  == [ok |-> FALSE, db |-> d, rows |-> {}, error |-> why]
Accepted(d, rs)  == [ok |-> TRUE, db |-> d, rows |-> rs, error |-> None]

\* from(tbl).select()
Select(d, client, tbl) == {r \in d[tbl] : Policy(d, client, tbl, "select", r)}

\* from(tbl).insert(rows)
Insert(d, client, tbl, new) ==
  IF \E r \in new : ~Policy(d, client, tbl, "insert", r) THEN Refused(d, "rls")
  ELSE IF \E r \in new : ~ForeignKeys(d, tbl, r) THEN Refused(d, "foreign key")
  ELSE IF \E r \in new : ~Unique(d, tbl, r) THEN Refused(d, "unique")
  ELSE Accepted([d EXCEPT ![tbl] = @ \cup new], new)

\* from(tbl).update({ col: val }).eq("id", id): rows the caller may not see or
\* update are skipped; a new row the with check clause refuses fails it all.
Update(d, client, tbl, id, col, val) ==
  LET hit == {r \in d[tbl] : /\ r.id = id
                             /\ Policy(d, client, tbl, "select", r)
                             /\ Policy(d, client, tbl, "update", r)}
      new == {[r EXCEPT ![col] = val] : r \in hit}
      d2  == [d EXCEPT ![tbl] = (@ \ hit) \cup new]
  IN  IF \E r \in new : ~Policy(d, client, tbl, "update", r) THEN Refused(d, "rls")
      ELSE IF \E r \in new : ~ForeignKeys(d2, tbl, r) THEN Refused(d, "foreign key")
      ELSE IF \E r \in new : ~Unique(d2, tbl, r) THEN Refused(d, "unique")
      ELSE Accepted(d2, new)

\* from(tbl).delete().eq("id", id); service_cycles rows take their tasks and
\* deliverables with them, a tenants row takes every row of its tenant
\* (on delete cascade).
Delete(d, client, tbl, id) ==
  LET hit == {r \in d[tbl] : /\ r.id = id
                             /\ Policy(d, client, tbl, "select", r)
                             /\ Policy(d, client, tbl, "delete", r)}
      d2  == [d EXCEPT ![tbl] = @ \ hit]
      d3  == IF tbl = "service_cycles" /\ hit # {}
             THEN [d2 EXCEPT
                     !["cycle_tasks"] = {t \in @ : t.service_cycle_id # id},
                     !["deliverables"] = {t \in @ : t.service_cycle_id # id}]
             ELSE IF tbl = "tenants" /\ hit # {}
             THEN [other \in RlsTables |->
                     IF other = "tenants" THEN d2[other]
                     ELSE {r \in d2[other] : r.tenant_id # id}]
             ELSE d2
  IN  Accepted(d3, hit)

\* (mutant) a plain insert on a table without the unique constraint
UpsertCycleNoConflict(d, client, id, tenantId, monthText) ==
  LET in == DateIn(monthText) IN
  IF ~in.ok THEN Refused(d, "invalid input syntax for type date")
  ELSE
    LET row == [id |-> id, tenant_id |-> tenantId, month |-> in.date,
                status |-> "collecting"]
    IN  IF ~Policy(d, client, "service_cycles", "insert", row) THEN Refused(d, "rls")
        ELSE IF ~ForeignKeys(d, "service_cycles", row) THEN Refused(d, "foreign key")
        ELSE Accepted([d EXCEPT !["service_cycles"] = @ \cup {row}], {row})

\* from("service_cycles").upsert({ tenant_id, month, status: "collecting" },
\*   { onConflict: "tenant_id,month" }).select().single():
\* insert ... on conflict (tenant_id, month) do update set the given columns.
UpsertCycle(d, client, id, tenantId, monthText) ==
  LET in == DateIn(monthText) IN
  IF ~in.ok THEN Refused(d, "invalid input syntax for type date")
  ELSE
    LET row == [id |-> id, tenant_id |-> tenantId, month |-> in.date,
                status |-> "collecting"]
        old == {o \in d["service_cycles"] :
                  o.tenant_id = tenantId /\ o.month = in.date}
    IN  IF ~Policy(d, client, "service_cycles", "insert", row) THEN Refused(d, "rls")
        ELSE IF ~ForeignKeys(d, "service_cycles", row) THEN Refused(d, "foreign key")
        ELSE IF old = {}
        THEN Accepted([d EXCEPT !["service_cycles"] = @ \cup {row}], {row})
        ELSE LET new == {[o EXCEPT !.status = "collecting"] : o \in old} IN
             IF \E o \in old \cup new :
                  ~Policy(d, client, "service_cycles", "update", o)
             THEN Refused(d, "rls")
             ELSE Accepted([d EXCEPT !["service_cycles"] = (@ \ old) \cup new], new)

\* (mutant) the last default task is left out
TaskRowsShort(batch, cycleId, tenantId) ==
  {[id |-> <<batch, i>>, service_cycle_id |-> cycleId, tenant_id |-> tenantId,
    task_type |-> defaultTasks[i], status |-> "todo"] : i \in 1..(Len(defaultTasks) - 1)}

\* defaultTasks.map(t => ({ service_cycle_id, tenant_id, task_type: t, status: "todo" }))
TaskRows(batch, cycleId, tenantId) ==
  {[id |-> <<batch, i>>, service_cycle_id |-> cycleId, tenant_id |-> tenantId,
    task_type |-> defaultTasks[i], status |-> "todo"] : i \in 1..Len(defaultTasks)}

\* ------------------------------------------------------------ initial state
\* README, Setup 3-5: tenant rows and tenant_users rows are created by hand.
DbWith(memberships) ==
  [tbl \in RlsTables |->
     IF tbl = "tenants" THEN {[id |-> t] : t \in TenantIds}
     ELSE IF tbl = "tenant_users" THEN memberships
     ELSE {}]

InitialDb ==
  DbWith({[tenant_id |-> "t1", user_id |-> "u1", role |-> "owner"],
          [tenant_id |-> "t1", user_id |-> "u2", role |-> "viewer"]})

NoPage == [kind |-> "none", tenantId |-> None]
Empty  == [x \in {} |-> None]   \* {} as Record<string, _>
NoRows == [loaded |-> FALSE, rows |-> {}]   \* rows === null: "Loading..."

InitWith(environment, database) ==
  /\ db = database
  /\ nextId = 1
  /\ clock = 0
  /\ env = environment
  /\ page = [s \in Sessions |-> NoPage]
  /\ cycles = [s \in Sessions |-> {}]
  /\ confirmAdvance = [s \in Sessions |-> {}]
  /\ prePauseStatus = [s \in Sessions |-> Empty]
  /\ starting = [s \in Sessions |-> {}]
  /\ homeRows = [s \in Sessions |-> NoRows]
  /\ homeCycles = [s \in Sessions |-> Empty]
  /\ startingCycle = [s \in Sessions |-> {}]
  /\ intake = [s \in Sessions |-> {}]
  /\ txForm = [s \in Sessions |-> {}]
  /\ txSaving = [s \in Sessions |-> {}]
  /\ api = {}
  /\ pausedFrom = Empty
  /\ last = [op |-> "init"]

\* README, Setup 6: the secrets of .env.local
Configured ==
  [DASHBOARD_ADMIN_TOKEN |-> "secret", INTAKE_SHARED_SECRET |-> "form-secret",
   NEXT_PUBLIC_SUPABASE_URL |-> "https://project.supabase.co",
   NEXT_PUBLIC_SUPABASE_ANON_KEY |-> "anon-key"]

\* --------------------------------------------------------- stored statuses
Stored(d, tbl, id) == {r \in d[tbl] : r.id = id}
StoredStatus(d, tbl, id) ==
  IF Stored(d, tbl, id) = {} THEN None ELSE (CHOOSE r \in Stored(d, tbl, id) : TRUE).status

\* History of pauses: the stored status a cycle had when it went to paused.
PausedFromNext ==
  pausedFrom' =
    [id \in {c.id : c \in db'["service_cycles"]} |->
       LET was == StoredStatus(db, "service_cycles", id)
           now == StoredStatus(db', "service_cycles", id)
       IN  IF now # "paused" THEN None
           ELSE IF was # "paused" THEN was
           ELSE pausedFrom[id]]

\* -------------------------------------------------------- TenantDetailPage
\* useParams / mount of /app/tenants/[tenantId]: every useState starts over.
Client(s) == Authenticated(SessionUser(s))

\* load(): the select of the tenant row with .single()
TenantRes(d, s, tenantId) ==
  {t \in Select(d, Client(s), "tenants") : t.id = tenantId}

\* load(): enrichedCycles, each cycle with the tasks of tasksByCycle
EnrichedCycles(d, s, tenantId) ==
  LET tasksRes == {t \in Select(d, Client(s), "cycle_tasks") : t.tenant_id = tenantId}
  IN  {[id |-> c.id, month |-> DateOut(c.month), status |-> c.status,
        tasks |-> {[id |-> t.id, task_type |-> t.task_type, status |-> t.status] :
                     t \in {x \in tasksRes : x.service_cycle_id = c.id}}] :
         c \in {x \in Select(d, Client(s), "service_cycles") : x.tenant_id = tenantId}}

\* load(): the intake events of the tenant
IntakeRes(d, s, tenantId) ==
  {[id |-> e.id, status |-> e.status] :
     e \in {x \in Select(d, Client(s), "intake_events") : x.tenant_id = tenantId}}

\* load() sets nothing when the tenant select fails (tenantRes.error).
Loaded(d, s, tenantId, before, fresh) ==
  IF Cardinality(TenantRes(d, s, tenantId)) = 1 THEN fresh ELSE before

\* Opening (or reloading) the tenant page: mount, then load().
OpenTenantPage(s, tenantId) ==
  /\ page' = [page EXCEPT ![s] = [kind |-> "tenant", tenantId |-> tenantId]]
  /\ cycles' = [cycles EXCEPT ![s] = Loaded(db, s, tenantId, {}, EnrichedCycles(db, s, tenantId))]
  /\ intake' = [intake EXCEPT ![s] = Loaded(db, s, tenantId, {}, IntakeRes(db, s, tenantId))]
  /\ confirmAdvance' = [confirmAdvance EXCEPT ![s] = {}]
  /\ prePauseStatus' = [prePauseStatus EXCEPT ![s] = Empty]
  /\ starting' = [starting EXCEPT ![s] = {}]
  /\ txForm' = [txForm EXCEPT ![s] = {}]
  /\ txSaving' = [txSaving EXCEPT ![s] = {}]
  /\ homeRows' = [homeRows EXCEPT ![s] = NoRows]
  /\ homeCycles' = [homeCycles EXCEPT ![s] = Empty]
  /\ startingCycle' = [startingCycle EXCEPT ![s] = {}]
  /\ last' = [op |-> "open", who |-> s]
  /\ UNCHANGED <<dbVars, clock, env, api, pausedFrom>>

OnTenantPage(s) == page[s].kind = "tenant"

\* hasThisMonth
hasThisMonth(s) == \E c \in cycles[s] : InThisMonth(c.month, clock)

\* CyclesSection.startCycle up to its first await: the upsert.
StartCycle(s) ==
  /\ OnTenantPage(s)
  /\ ~hasThisMonth(s)
  /\ starting[s] = {}
  /\ nextId <= MaxIds
  /\ LET r == UpsertCycle(db, Client(s), nextId, page[s].tenantId, thisMonth(clock)) IN
       /\ db' = r.db
       /\ nextId' = IF r.ok THEN nextId + 1 ELSE nextId
       /\ starting' = [starting EXCEPT ![s] =
                         IF r.ok THEN {[batch |-> nextId,
                                        cycle |-> CHOOSE c \in r.rows : TRUE,
                                        tenantId |-> page[s].tenantId]}
                         ELSE {}]
       /\ last' = [op |-> "start", who |-> s, wrote |-> r.ok]
  /\ PausedFromNext
  /\ UNCHANGED <<clock, env, page, cycles, confirmAdvance, prePauseStatus,
                 homeUi, intakeUi, api>>

\* CyclesSection.startCycle after the upsert: the task insert (its error is
\* not looked at), then onCycleStarted, which is load().
StartCycleTasks(s) ==
  /\ OnTenantPage(s)
  /\ starting[s] # {}
  /\ LET job == CHOOSE j \in starting[s] : TRUE
         r   == Insert(db, Client(s), "cycle_tasks",
                       TaskRows(job.batch, job.cycle.id, job.tenantId))
     IN  /\ db' = r.db
         /\ cycles' = [cycles EXCEPT ![s] =
              Loaded(r.db, s, job.tenantId, @, EnrichedCycles(r.db, s, job.tenantId))]
         /\ intake' = [intake EXCEPT ![s] =
              Loaded(r.db, s, job.tenantId, @, IntakeRes(r.db, s, job.tenantId))]
         /\ last' = [op |-> "start_tasks", who |-> s, wrote |-> r.ok]
  /\ starting' = [starting EXCEPT ![s] = {}]
  /\ UNCHANGED <<nextId, clock, env, page, confirmAdvance, prePauseStatus,
                 homeUi, txForm, txSaving, api, pausedFrom>>

\* handleCycleAdvanced: setCycles(prev => prev.map(...))
handleCycleAdvanced(view, cycleId, newStatus) ==
  {IF c.id = cycleId THEN [c EXCEPT !.status = newStatus] ELSE c : c \in view}

\* canAdvance / canPause of the cycle card
\* (mutant) Pause offered for everything but paused
canPauseDelivered(cycle) == cycle.status # "paused"

canAdvance(cycle) ==
  /\ cycle.status # "paused"
  /\ indexOf(CYCLE_STATUS_ORDER, cycle.status) < Len(CYCLE_STATUS_ORDER) - 1

canPause(cycle) == cycle.status # "paused" /\ cycle.status # "delivered"

\* (mutant) no task counts as open
openTasksNone(cycle) == {}

\* (mutant) the next status taken two places on
advanceTargetSkip(cycle) ==
  LET currentIdx == indexOf(CYCLE_STATUS_ORDER, cycle.status) IN
  IF currentIdx = -1 \/ currentIdx >= Len(CYCLE_STATUS_ORDER) - 1 THEN None
  ELSE IF currentIdx + 2 > Len(CYCLE_STATUS_ORDER) - 1 THEN "delivered"
  ELSE CYCLE_STATUS_ORDER[(currentIdx + 2) + 1]

\* (mutant) the currentIdx === -1 test left out
advanceTargetUnknown(cycle) ==
  LET currentIdx == indexOf(CYCLE_STATUS_ORDER, cycle.status) IN
  IF currentIdx >= Len(CYCLE_STATUS_ORDER) - 1 THEN None
  ELSE CYCLE_STATUS_ORDER[(currentIdx + 1) + 1]

\* advanceCycle: the status it would write, None when it returns at once
advanceTarget(cycle) ==
  LET currentIdx == indexOf(CYCLE_STATUS_ORDER, cycle.status) IN
  IF currentIdx = -1 \/ currentIdx >= Len(CYCLE_STATUS_ORDER) - 1 THEN None
  ELSE CYCLE_STATUS_ORDER[(currentIdx + 1) + 1]

openTasks(cycle) == {t \in cycle.tasks : t.status # "done"}

\* A click on "Advance ->" (shown when canAdvance and not confirming) or on
\* "Confirm" (shown when confirming): advanceCycle(cycle).
advanceCycle(s, cycle) ==
  /\ OnTenantPage(s)
  /\ cycle \in cycles[s]
  /\ \/ canAdvance(cycle) /\ confirmAdvance[s] # {cycle.id}
     \/ confirmAdvance[s] = {cycle.id}
  /\ LET nextStatus == advanceTarget(cycle) IN
     IF nextStatus = None
     THEN /\ last' = [op |-> "advance", who |-> s, cid |-> cycle.id, wrote |-> FALSE]
          /\ UNCHANGED <<db, cycles, confirmAdvance>>
     ELSE IF openTasks(cycle) # {} /\ confirmAdvance[s] # {cycle.id}
     THEN /\ confirmAdvance' = [confirmAdvance EXCEPT ![s] = {cycle.id}]
          /\ last' = [op |-> "advance", who |-> s, cid |-> cycle.id, wrote |-> FALSE]
          /\ UNCHANGED <<db, cycles>>
     ELSE /\ confirmAdvance' = [confirmAdvance EXCEPT ![s] = {}]
          /\ db' = Update(db, Client(s), "service_cycles", cycle.id, "status", nextStatus).db
          /\ cycles' = [cycles EXCEPT ![s] = handleCycleAdvanced(@, cycle.id, nextStatus)]
          /\ last' = [op |-> "advance", who |-> s, cid |-> cycle.id, wrote |-> TRUE]
  /\ PausedFromNext
  /\ UNCHANGED <<nextId, clock, env, page, prePauseStatus, starting, homeUi,
                 intakeUi, api>>

\* "Cancel" next to "Confirm": setConfirmAdvance(null)
cancelAdvance(s, cycle) ==
  /\ OnTenantPage(s)
  /\ cycle \in cycles[s]
  /\ confirmAdvance[s] = {cycle.id}
  /\ confirmAdvance' = [confirmAdvance EXCEPT ![s] = {}]
  /\ last' = [op |-> "cancel", who |-> s, cid |-> cycle.id, wrote |-> FALSE]
  /\ UNCHANGED <<dbVars, clock, env, page, cycles, prePauseStatus, starting,
                 homeUi, intakeUi, api, pausedFrom>>

\* "Pause" (shown when canPause): pauseCycle(cycle)
pauseCycle(s, cycle) ==
  /\ OnTenantPage(s)
  /\ cycle \in cycles[s]
  /\ canPause(cycle)
  /\ prePauseStatus' = [prePauseStatus EXCEPT ![s] = (cycle.id :> cycle.status) @@ @]
  /\ db' = Update(db, Client(s), "service_cycles", cycle.id, "status", "paused").db
  /\ cycles' = [cycles EXCEPT ![s] = handleCycleAdvanced(@, cycle.id, "paused")]
  /\ last' = [op |-> "pause", who |-> s, cid |-> cycle.id, wrote |-> TRUE]
  /\ PausedFromNext
  /\ UNCHANGED <<nextId, clock, env, page, confirmAdvance, starting, homeUi,
                 intakeUi, api>>

\* resumeCycle: prePauseStatus[cycle.id] ?? "collecting"
restoreStatus(pre, cycle) ==
  IF cycle.id \in DOMAIN pre THEN pre[cycle.id] ELSE "collecting"

\* "Resume" (shown when the status is paused): resumeCycle(cycle)
resumeCycle(s, cycle) ==
  /\ OnTenantPage(s)
  /\ cycle \in cycles[s]
  /\ cycle.status = "paused"
  /\ LET to == restoreStatus(prePauseStatus[s], cycle) IN
       /\ db' = Update(db, Client(s), "service_cycles", cycle.id, "status", to).db
       /\ cycles' = [cycles EXCEPT ![s] = handleCycleAdvanced(@, cycle.id, to)]
  /\ prePauseStatus' = [prePauseStatus EXCEPT ![s] =
                          [k \in DOMAIN @ \ {cycle.id} |-> @[k]]]
  /\ last' = [op |-> "resume", who |-> s, cid |-> cycle.id, wrote |-> TRUE]
  /\ PausedFromNext
  /\ UNCHANGED <<nextId, clock, env, page, confirmAdvance, starting, homeUi,
                 intakeUi, api>>

\* ------------------------------------------------------------ intake route
\* Text inputs, as sequences of characters.
Text(n) ==
  CASE n = "empty"      -> << >>
    [] n = "blank"      -> <<" ">>
    [] n = "4100"       -> <<"4", "1", "0", "0">>
    [] n = "2026-11-05" -> <<"2", "0", "2", "6", "-", "1", "1", "-", "0", "5">>
    [] n = "2026-02-30" -> <<"2", "0", "2", "6", "-", "0", "2", "-", "3", "0">>
    [] n = "2026-11-01" -> <<"2", "0", "2", "6", "-", "1", "1", "-", "0", "1">>
    [] n = "2026-11-15" -> <<"2", "0", "2", "6", "-", "1", "1", "-", "1", "5">>
    [] n = "2026-12-01" -> <<"2", "0", "2", "6", "-", "1", "2", "-", "0", "1">>
    [] n = "2026-13-01" -> <<"2", "0", "2", "6", "-", "1", "3", "-", "0", "1">>
    [] n = "2026-11"    -> <<"2", "0", "2", "6", "-", "1", "1">>
    [] n = "11/01/2026" -> <<"1", "1", "/", "0", "1", "/", "2", "0", "2", "6">>

\* String.prototype.trim, for the blanks of the inputs above
trim(text) == SelectSeq(text, LAMBDA ch : ch # " ")

\* z.string().uuid(): the ids a URL or a body may carry are uuids, this is not
isUuid(x) == x # "not-a-uuid"

\* z.string().url()
isUrl(x) == x \in {"https://files.example/receipt-1.pdf"}

\* A JSON body of the intake route.  An optional field is {} (key absent) or
\* {value}; nulls names the keys sent as JSON null; amounts are in thousandths.
Body(t, src, dt, amt, descr, url, raw, nulls) ==
  [json |-> TRUE, tenant_id |-> t, source |-> src, date |-> dt, amount |-> amt,
   description |-> descr, attachment_url |-> url, raw_payload |-> raw,
   nulls |-> nulls]

Bare(t) == Body(t, "form_in", {}, {}, {}, {}, {}, {})

\* onFormSubmit: date, amount, description and attachment_url start as null
\* and stay null for a form without the mapped questions.
ScriptBody ==
  Body("t1", "form_in", {}, {}, {}, {}, {"{values,namedValues}"},
       {"date", "amount", "description", "attachment_url"})

\* What the form of the tenant page's flow sends.
FormBodies == {Bare("t1"), [Bare("t1") EXCEPT !.date = {Text("2026-11-05")}]}

\* The bodies tried on the route: one field at a time off a bare body, a full
\* body, the script's body and one that is not JSON.
IntakeBodies ==
  {[json |-> FALSE], ScriptBody, Bare("t1"), Bare("t9"), Bare("not-a-uuid"),
   [Bare("t1") EXCEPT !.source = ""],
   [Bare("t1") EXCEPT !.date = {Text("2026-11-05")}],
   [Bare("t1") EXCEPT !.date = {Text("2026-02-30")}],
   [Bare("t1") EXCEPT !.date = {Text("11/01/2026")}],
   [Bare("t1") EXCEPT !.amount = {12000}],
   [Bare("t1") EXCEPT !.amount = {1005}],
   [Bare("t1") EXCEPT !.description = {""}],
   [Bare("t1") EXCEPT !.attachment_url = {"receipt-1.pdf"}],
   [Bare("t1") EXCEPT !.nulls = {"raw_payload"}],
   Body("t1", "form_out", {Text("2026-11-05")}, {12000}, {"rent"},
        {"https://files.example/receipt-1.pdf"}, {"{values,namedValues}"}, {})}

\* intakeSchema.safeParse(body).success: .optional() takes a missing key, not
\* null; z.unknown() takes anything.
intakeSchema(body) ==
  /\ body.json
  /\ isUuid(body.tenant_id)
  /\ body.source # ""
  /\ \A dt \in body.date : MonthRegex(dt)
  /\ \A u \in body.attachment_url : isUrl(u)
  /\ body.nulls \subseteq {"raw_payload"}

\* requireIntakeToken(request); "throws" when the secret is not configured
requireIntakeToken(environment, got) ==
  IF environment.INTAKE_SHARED_SECRET = None THEN "throws"
  ELSE IF got = None \/ got # environment.INTAKE_SHARED_SECRET THEN "false"
  ELSE "true"

\* The input conversion of a numeric(15,2) column, in thousandths: rounded to
\* the hundredth, half away from zero.
NumericIn(a) ==
  IF a >= 0 THEN ((a + 5) \div 10) * 10 ELSE -((((-a) + 5) \div 10) * 10)

\* (mutant) the attachment is not stored
IntakeRowNoUrl(id, body) ==
  [id |-> id, tenant_id |-> body.tenant_id, source |-> body.source,
   date |-> {DateIn(dt).date : dt \in body.date},
   amount |-> {NumericIn(a) : a \in body.amount},
   description |-> body.description,
   attachment_url |-> {},
   raw_payload |-> body.raw_payload,
   status |-> "new"]

\* The row the route inserts: parsed.data.x ?? null for each optional field.
IntakeRow(id, body) ==
  [id |-> id, tenant_id |-> body.tenant_id, source |-> body.source,
   date |-> {DateIn(dt).date : dt \in body.date},
   amount |-> {NumericIn(a) : a \in body.amount},
   description |-> body.description,
   attachment_url |-> body.attachment_url,
   raw_payload |-> body.raw_payload,
   status |-> "new"]

\* The insert of the route: a date column takes the text of a calendar date.
IntakeInsert(d, id, body) ==
  IF \E dt \in body.date : ~DateIn(dt).ok
  THEN Refused(d, "invalid input syntax for type date")
  ELSE Insert(d, ServiceRole, "intake_events", {IntakeRow(id, body)})

Answer(got, body, status) ==
  [op |-> "intake", token |-> got, body |-> body, status |-> status]

\* POST /api/intake/google-form
IntakePost(got, body) ==
  /\ nextId <= MaxIds
  /\ LET auth == requireIntakeToken(env, got) IN
     IF auth = "throws"
     THEN /\ last' = Answer(got, body, 500) /\ UNCHANGED dbVars
     ELSE IF auth = "false"
     THEN /\ last' = Answer(got, body, 401) /\ UNCHANGED dbVars
     ELSE IF ~body.json
     THEN /\ last' = Answer(got, body, 500) /\ UNCHANGED dbVars
     ELSE IF ~intakeSchema(body)
     THEN /\ last' = Answer(got, body, 400) /\ UNCHANGED dbVars
     ELSE LET r == IntakeInsert(db, nextId, body) IN
          /\ db' = r.db
          /\ nextId' = IF r.ok THEN nextId + 1 ELSE nextId
          /\ last' = Answer(got, body, IF r.ok THEN 200 ELSE 500)
  /\ UNCHANGED <<clock, env, page, cycleUi, homeUi, intakeUi, api, pausedFrom>>

\* ------------------------------------------------------------ IntakeSection
\* setIntake(prev => prev.map(e => e.id === id ? { ...e, status } : e))
setIntakeStatus(view, id, newStatus) ==
  {IF e.id = id THEN [e EXCEPT !.status = newStatus] ELSE e : e \in view}

\* The row's action cell and the form row under it.
offersMarkCategorized(event) == event.status = "new"

offersCreateTransaction(s, event) == event.status = "categorized" /\ txForm[s] # {event.id}

offersCancel(s, event) == event.status = "categorized" /\ txForm[s] = {event.id}

offersPostTransaction(s, event) == txForm[s] = {event.id}

\* "Mark categorized": handleIntakeStatusChange(event.id, "categorized")
markCategorized(s, event) ==
  /\ OnTenantPage(s)
  /\ event \in intake[s]
  /\ offersMarkCategorized(event)
  /\ db' = Update(db, Client(s), "intake_events", event.id, "status", "categorized").db
  /\ intake' = [intake EXCEPT ![s] = setIntakeStatus(@, event.id, "categorized")]
  /\ last' = [op |-> "categorize", who |-> s, eid |-> event.id, wrote |-> TRUE]
  /\ UNCHANGED <<nextId, clock, env, page, cycleUi, homeUi, txForm, txSaving, api,
                 pausedFrom>>

\* "Create transaction": openTxForm(event)
openTxForm(s, event) ==
  /\ OnTenantPage(s)
  /\ event \in intake[s]
  /\ offersCreateTransaction(s, event)
  /\ txForm' = [txForm EXCEPT ![s] = {event.id}]
  /\ last' = [op |-> "open_form", who |-> s, eid |-> event.id, wrote |-> FALSE]
  /\ UNCHANGED <<dbVars, clock, env, page, cycleUi, homeUi, intake, txSaving, api,
                 pausedFrom>>

\* "Cancel": setTxForm(null)
cancelTxForm(s, event) ==
  /\ OnTenantPage(s)
  /\ event \in intake[s]
  /\ offersCancel(s, event)
  /\ txForm' = [txForm EXCEPT ![s] = {}]
  /\ last' = [op |-> "cancel_form", who |-> s, eid |-> event.id, wrote |-> FALSE]
  /\ UNCHANGED <<dbVars, clock, env, page, cycleUi, homeUi, intake, txSaving, api,
                 pausedFrom>>

\* (mutant) the status column is left to its default
TransactionInsertPlanned(d, client, id, tenantId, txDate, txCategory) ==
  IF ~DateIn(txDate).ok THEN Refused(d, "invalid input syntax for type date")
  ELSE Insert(d, client, "transactions",
              {[id |-> id, tenant_id |-> tenantId, date |-> DateIn(txDate).date,
                category_id |-> trim(txCategory), status |-> "Planned"]})

\* The insert of submitTransaction; date is a date column, not null.
TransactionInsert(d, client, id, tenantId, txDate, txCategory) ==
  IF ~DateIn(txDate).ok THEN Refused(d, "invalid input syntax for type date")
  ELSE Insert(d, client, "transactions",
              {[id |-> id, tenant_id |-> tenantId, date |-> DateIn(txDate).date,
                category_id |-> trim(txCategory), status |-> "Received"]})

\* What submitTransaction did up to its insert, with the form's inputs and
\* the message it shows (setTxError).
Submitted(s, event, txCategory, txDate, wrote, error) ==
  [op |-> "submit", who |-> s, eid |-> event.id, category |-> txCategory,
   date |-> txDate, wrote |-> wrote, error |-> error]

\* "Post transaction" (disabled while txSaving): submitTransaction(event.id)
\* with the form's inputs, up to its insert.
submitTransaction(s, event, txCategory, txDate) ==
  /\ OnTenantPage(s)
  /\ event \in intake[s]
  /\ offersPostTransaction(s, event)
  /\ txSaving[s] = {}
  /\ nextId <= MaxIds
  /\ IF trim(txCategory) = << >>
     THEN /\ last' = Submitted(s, event, txCategory, txDate, FALSE,
                               {"Category ID is required."})
          /\ UNCHANGED <<dbVars, txSaving>>
     ELSE IF txDate = << >>
     THEN /\ last' = Submitted(s, event, txCategory, txDate, FALSE,
                               {"Date is required."})
          /\ UNCHANGED <<dbVars, txSaving>>
     ELSE LET r == TransactionInsert(db, Client(s), nextId, page[s].tenantId,
                                     txDate, txCategory)
          IN  IF ~r.ok
              THEN /\ last' = Submitted(s, event, txCategory, txDate, FALSE, {r.error})
                   /\ UNCHANGED <<dbVars, txSaving>>
              ELSE /\ db' = r.db
                   /\ nextId' = nextId + 1
                   /\ txSaving' = [txSaving EXCEPT ![s] = {event.id}]
                   /\ last' = Submitted(s, event, txCategory, txDate, TRUE, {})
  /\ UNCHANGED <<clock, env, page, cycleUi, homeUi, intake, txForm, api, pausedFrom>>

\* submitTransaction after its insert: the event is marked posted, the form
\* closed and the view told (onTransactionCreated).
submitTransactionPosted(s, eventId) ==
  /\ txSaving[s] = {eventId}
  /\ db' = Update(db, Client(s), "intake_events", eventId, "status", "posted").db
  /\ txSaving' = [txSaving EXCEPT ![s] = {}]
  /\ txForm' = [txForm EXCEPT ![s] = {}]
  /\ intake' = [intake EXCEPT ![s] = setIntakeStatus(@, eventId, "posted")]
  /\ last' = [op |-> "post", who |-> s, eid |-> eventId, wrote |-> TRUE]
  /\ UNCHANGED <<nextId, clock, env, page, cycleUi, homeUi, api, pausedFrom>>

\* --------------------------------------------------------------- AppHomePage
OnHomePage(s) == page[s].kind = "home"

\* from("tenant_users").select("role, tenants ( id, name, package_tier, niche )")
TenantUserRows(d, s) ==
  {[role |-> m.role,
    tenants |-> {t \in Select(d, Client(s), "tenants") : t.id = m.tenant_id}] :
     m \in Select(d, Client(s), "tenant_users")}

\* The tenants the table lists: rows whose embedded tenant is not null.
Listed(rows) == UNION {r.tenants : r \in rows}

\* loadCycles(tenantIds): nothing is set for an empty list of ids.
loadCycles(d, s, tenantIds, k, before) ==
  LET data == {c \in Select(d, Client(s), "service_cycles") :
                 c.month = startOfMonth(k) /\ c.tenant_id \in tenantIds}
  IN  IF tenantIds = {} THEN before
      ELSE [t \in {c.tenant_id : c \in data} |->
              CHOOSE c \in data : c.tenant_id = t]

\* Opening (or reloading) /app: mount, then run().
OpenHomePage(s) ==
  /\ page' = [page EXCEPT ![s] = [kind |-> "home", tenantId |-> None]]
  /\ LET rows == TenantUserRows(db, s) IN
       /\ homeRows' = [homeRows EXCEPT ![s] = [loaded |-> TRUE, rows |-> rows]]
       /\ homeCycles' = [homeCycles EXCEPT ![s] =
            loadCycles(db, s, {t.id : t \in Listed(rows)}, clock, Empty)]
  /\ startingCycle' = [startingCycle EXCEPT ![s] = {}]
  /\ cycles' = [cycles EXCEPT ![s] = {}]
  /\ intake' = [intake EXCEPT ![s] = {}]
  /\ confirmAdvance' = [confirmAdvance EXCEPT ![s] = {}]
  /\ prePauseStatus' = [prePauseStatus EXCEPT ![s] = Empty]
  /\ starting' = [starting EXCEPT ![s] = {}]
  /\ txForm' = [txForm EXCEPT ![s] = {}]
  /\ txSaving' = [txSaving EXCEPT ![s] = {}]
  /\ last' = [op |-> "home", who |-> s]
  /\ UNCHANGED <<dbVars, clock, env, api, pausedFrom>>

\* AppHomePage.startCycle(tenantId) up to its first await: the upsert.  The
\* button is there for a listed tenant with no cycles[tenant.id] and is
\* disabled while startingCycle is that tenant.
HomeStartCycle(s, tenantId) ==
  /\ OnHomePage(s)
  /\ tenantId \in {t.id : t \in Listed(homeRows[s].rows)}
  /\ tenantId \notin DOMAIN homeCycles[s]
  /\ startingCycle[s] # {tenantId}
  /\ nextId <= MaxIds
  /\ LET r == UpsertCycle(db, Client(s), nextId, tenantId, thisMonth(clock)) IN
       /\ db' = r.db
       /\ nextId' = IF r.ok THEN nextId + 1 ELSE nextId
       /\ starting' = [starting EXCEPT ![s] =
                         IF r.ok THEN @ \cup {[batch |-> nextId,
                                               cycle |-> CHOOSE c \in r.rows : TRUE,
                                               tenantId |-> tenantId]}
                         ELSE @]
       /\ startingCycle' = [startingCycle EXCEPT ![s] = IF r.ok THEN {tenantId} ELSE {}]
       /\ last' = [op |-> "home_start", who |-> s, wrote |-> r.ok]
  /\ PausedFromNext
  /\ UNCHANGED <<clock, env, page, cycles, confirmAdvance, prePauseStatus,
                 homeRows, homeCycles, intakeUi, api>>

\* AppHomePage.startCycle after the upsert: the task insert (its error is not
\* looked at), setCycles, and the finally block.
HomeStartCycleTasks(s, job) ==
  /\ OnHomePage(s)
  /\ job \in starting[s]
  /\ LET r == Insert(db, Client(s), "cycle_tasks",
                     TaskRows(job.batch, job.cycle.id, job.tenantId))
     IN  /\ db' = r.db
         /\ last' = [op |-> "home_start_tasks", who |-> s, wrote |-> r.ok]
  /\ homeCycles' = [homeCycles EXCEPT ![s] =
       [t \in DOMAIN @ \cup {job.tenantId} |->
          IF t = job.tenantId
          THEN [id |-> job.cycle.id, tenant_id |-> job.cycle.tenant_id,
                month |-> job.cycle.month, status |-> job.cycle.status]
          ELSE @[t]]]
  /\ starting' = [starting EXCEPT ![s] = @ \ {job}]
  /\ startingCycle' = [startingCycle EXCEPT ![s] = {}]
  /\ UNCHANGED <<nextId, clock, env, page, cycles, confirmAdvance, prePauseStatus,
                 homeRows, intakeUi, api, pausedFrom>>

\* ------------------------------------------------- POST .../cycle/start
\* The month texts a body may carry, and a body that is not JSON at all.
ApiBodies ==
  {[json |-> FALSE], [json |-> TRUE, month |-> {}]} \cup
  {[json |-> TRUE, month |-> {Text(n)}] :
     n \in {"2026-11-01", "2026-13-01", "2026-11"}}

\* With the admin token: every body for t1, a good body for the unknown t9.
\* With a wrong token or none: a good body and one that is not JSON.
ApiRequests ==
  [token : {"secret"}, tenantId : {"t1"}, body : ApiBodies]
  \cup [token : {"secret"}, tenantId : {"t9"},
        body : {[json |-> TRUE, month |-> {Text("2026-11-01")}]}]
  \cup [token : {"guess", None}, tenantId : {"t1"},
        body : {[json |-> FALSE], [json |-> TRUE, month |-> {Text("2026-11-01")}]}]

\* payloadSchema.safeParse(body).success
payloadSchema(body) == \E m \in body.month : MonthRegex(m)

\* requireAdminToken(request); "throws" when the token is not configured
requireAdminToken(environment, got) ==
  IF environment.DASHBOARD_ADMIN_TOKEN = None THEN "throws"
  ELSE IF got = None \/ got # environment.DASHBOARD_ADMIN_TOKEN THEN "false"
  ELSE "true"

\* What the route has answered; status 0 while it still awaits the task insert.
Response(req, status, cycle) ==
  [op |-> "api_start", req |-> req, status |-> status, cycle |-> cycle]

\* POST up to its first write: the token, the body, the schema, the upsert.
ApiStart(req) ==
  /\ Cardinality(api) < MaxApi
  /\ nextId <= MaxIds
  /\ LET auth == requireAdminToken(env, req.token) IN
     IF auth = "throws"
     THEN /\ last' = Response(req, 500, {}) /\ UNCHANGED <<dbVars, api>>
     ELSE IF auth = "false"
     THEN /\ last' = Response(req, 401, {}) /\ UNCHANGED <<dbVars, api>>
     ELSE IF ~req.body.json
     THEN /\ last' = Response(req, 500, {}) /\ UNCHANGED <<dbVars, api>>
     ELSE IF ~payloadSchema(req.body)
     THEN /\ last' = Response(req, 400, {}) /\ UNCHANGED <<dbVars, api>>
     ELSE LET r == UpsertCycle(db, ServiceRole, nextId, req.tenantId,
                               CHOOSE m \in req.body.month : TRUE)
          IN  /\ db' = r.db
              /\ nextId' = IF r.ok THEN nextId + 1 ELSE nextId
              /\ api' = IF r.ok
                        THEN api \cup {[batch |-> nextId, req |-> req,
                                        cycle |-> CHOOSE c \in r.rows : TRUE]}
                        ELSE api
              /\ last' = IF r.ok THEN Response(req, 0, {})
                         ELSE Response(req, 500, {})
  /\ PausedFromNext
  /\ UNCHANGED <<clock, env, page, cycleUi, homeUi, intakeUi>>

\* POST after the upsert: the task insert and the response.
ApiStartTasks(job) ==
  /\ job \in api
  /\ LET r == Insert(db, ServiceRole, "cycle_tasks",
                     TaskRows(job.batch, job.cycle.id, job.req.tenantId))
     IN  /\ db' = r.db
         /\ last' = IF r.ok THEN Response(job.req, 200, {job.cycle})
                    ELSE Response(job.req, 500, {})
  /\ api' = api \ {job}
  /\ UNCHANGED <<nextId, clock, env, page, cycleUi, homeUi, intakeUi, pausedFrom>>

\* ------------------------------------------------ statements of a client
\* What a row of a table needs for its constraints; a task's id is a pair.
RowOf(tbl, id, tenantId, parent) ==
  IF tbl = "service_cycles"
  THEN [id |-> id, tenant_id |-> tenantId, month |-> startOfMonth(0),
        status |-> "collecting"]
  ELSE IF tbl = "cycle_tasks"
  THEN [id |-> <<id, 1>>, service_cycle_id |-> parent, tenant_id |-> tenantId,
        task_type |-> defaultTasks[1], status |-> "todo"]
  ELSE IF tbl = "deliverables"
  THEN [id |-> id, service_cycle_id |-> parent, tenant_id |-> tenantId]
  ELSE IF tbl = "intake_events"
  THEN IntakeRow(id, Bare(tenantId))
  ELSE [id |-> id, tenant_id |-> tenantId]

Parents(d, tbl) ==
  IF tbl \in {"cycle_tasks", "deliverables"}
  THEN {c.id : c \in d["service_cycles"]} \cup {0}
  ELSE {0}

Rows(d) == UNION {d[tbl] : tbl \in MemberTables}

\* Tables that reference one another; the rest stand alone.
Family(tbl) ==
  IF tbl \in {"service_cycles", "cycle_tasks", "deliverables"}
  THEN {"service_cycles", "cycle_tasks", "deliverables"}
  ELSE {tbl}

\* Direct statements are tried on one family of tables at a time.
InUse(d, tbl) == \A other \in MemberTables : d[other] # {} => other \in Family(tbl)

Statement(op, client, tbl, r) ==
  [op |-> op, client |-> client, tbl |-> tbl, rows |-> r.rows]

\* supabase.from(tbl).select("*") with the anon key and a login
UserSelect(s, tbl) ==
  /\ last' = Statement("select", Client(s), tbl,
                       Accepted(db, Select(db, Client(s), tbl)))
  /\ UNCHANGED <<dbVars, clock, env, page, cycleUi, homeUi, intakeUi, api, pausedFrom>>

\* supabase.from(tbl).insert(row), as a user or with the service role key
ClientInsert(client, tbl, tenantId, parent) ==
  /\ nextId <= MaxIds
  /\ Cardinality(Rows(db)) < MaxRows
  /\ InUse(db, tbl)
  /\ LET r == Insert(db, client, tbl, {RowOf(tbl, nextId, tenantId, parent)}) IN
       /\ db' = r.db
       /\ nextId' = IF r.ok THEN nextId + 1 ELSE nextId
       /\ last' = Statement("insert", client, tbl, r)
  /\ UNCHANGED <<clock, env, page, cycleUi, homeUi, intakeUi, api, pausedFrom>>

\* supabase.from(tbl).update({ tenant_id }).eq("id", id)
ClientUpdate(client, tbl, id, tenantId) ==
  /\ LET r == Update(db, client, tbl, id, "tenant_id", tenantId) IN
       /\ db' = r.db
       /\ last' = Statement("update", client, tbl, r)
  /\ UNCHANGED <<nextId, clock, env, page, cycleUi, homeUi, intakeUi, api, pausedFrom>>

\* supabase.from(tbl).delete().eq("id", id)
ClientDelete(client, tbl, id) ==
  /\ LET r == Delete(db, client, tbl, id) IN
       /\ db' = r.db
       /\ last' = Statement("delete", client, tbl, r)
  /\ UNCHANGED <<nextId, clock, env, page, cycleUi, homeUi, intakeUi, api, pausedFrom>>

\* The month turns over.
Tick ==
  /\ clock < MaxTicks
  /\ clock' = clock + 1
  /\ last' = [op |-> "tick"]
  /\ UNCHANGED <<dbVars, env, page, cycleUi, homeUi, intakeUi, api, pausedFrom>>

\* ---------------------------------------------- the tenant page's cycles
Init == InitWith(Configured, InitialDb)

\* The steps of the tenant page's Cycles section, for the sessions of S.
CyclesStep(S) ==
  \/ \E s \in S, t \in TenantIds : OpenTenantPage(s, t)
  \/ \E s \in S : StartCycle(s)
  \/ \E s \in S : StartCycleTasks(s)
  \/ \E s \in S : \E c \in cycles[s] : advanceCycle(s, c)
  \/ \E s \in S : \E c \in cycles[s] : cancelAdvance(s, c)
  \/ \E s \in S : \E c \in cycles[s] : pauseCycle(s, c)
  \/ \E s \in S : \E c \in cycles[s] : resumeCycle(s, c)

Next == CyclesStep(Sessions)

Spec == Init /\ [][Next]_vars

\* One browser session alone.
NextSolo == CyclesStep({"s1"})

SpecSolo == Init /\ [][NextSolo]_vars

\* --------------------------------------------- the tenant page's intake
IntakeStep(S) ==
  \/ \E body \in FormBodies : IntakePost("form-secret", body)
  \/ \E s \in S : OpenTenantPage(s, "t1")
  \/ \E s \in S : StartCycle(s)
  \/ \E s \in S : StartCycleTasks(s)
  \/ \E s \in S : \E e \in intake[s] : markCategorized(s, e)
  \/ \E s \in S : \E e \in intake[s] : openTxForm(s, e)
  \/ \E s \in S : \E e \in intake[s] : cancelTxForm(s, e)
  \/ \E s \in S : \E e \in intake[s] :
       \E cat \in {Text("blank"), Text("4100")}, dt \in {Text("empty"), Text("2026-11-05")} :
         submitTransaction(s, e, cat, dt)
  \/ \E s \in S : \E id \in txSaving[s] : submitTransactionPosted(s, id)

NextIntake == IntakeStep(Sessions)

SpecIntake == Init /\ [][NextIntake]_vars

\* ------------------------------------------------------ the form endpoint
\* One request to the intake route, while there is room for its row.
Ingest(got, body) ==
  /\ Cardinality(db["intake_events"]) < MaxEvents
  /\ IntakePost(got, body)

NextIngest ==
  \E got \in {None, "form-secret", "guess"}, body \in IntakeBodies : Ingest(got, body)

SpecIngest == Init /\ [][NextIngest]_vars

\* ------------------------------------------------- direct access with a login
\* tenant_users as set up by hand: u1 belongs to t1; u2 to any of the tenants.
Memberships ==
  {{[tenant_id |-> "t1", user_id |-> "u1", role |-> "owner"]} \cup
   {[tenant_id |-> t, user_id |-> "u2", role |-> "bookkeeper"] : t \in ts} :
     ts \in SUBSET TenantIds}

InitRls == \E m \in Memberships : InitWith(Configured, DbWith(m))

Clients == {Client(s) : s \in Sessions} \cup {ServiceRole}

NextRls ==
  \/ \E s \in Sessions, tbl \in {t \in MemberTables : db[t] # {}} : UserSelect(s, tbl)
  \/ \E c \in Clients, tbl \in MemberTables, t \in TenantIds :
       \E parent \in Parents(db, tbl) : ClientInsert(c, tbl, t, parent)
  \/ \E c \in Clients, tbl \in MemberTables, t \in TenantIds :
       \E row \in db[tbl] : ClientUpdate(c, tbl, row.id, t)
  \/ \E c \in Clients, tbl \in MemberTables :
       \E row \in db[tbl] : ClientDelete(c, tbl, row.id)

SpecRls == InitRls /\ [][NextRls]_vars

\* ------------------------------------------------------ the list of tenants
\* README, Setup 5: a tenant_users row is added (or taken away) by hand.
AddMember(tenantId, u) ==
  /\ LET r == Insert(db, ServiceRole, "tenant_users",
                     {[tenant_id |-> tenantId, user_id |-> u, role |-> "bookkeeper"]})
     IN  /\ r.ok
         /\ db' = r.db
  /\ last' = [op |-> "add_member"]
  /\ UNCHANGED <<nextId, clock, env, page, cycleUi, homeUi, intakeUi, api, pausedFrom>>

RemoveMember(row) ==
  /\ row \in db["tenant_users"]
  /\ db' = [db EXCEPT !["tenant_users"] = @ \ {row}]
  /\ last' = [op |-> "remove_member"]
  /\ UNCHANGED <<nextId, clock, env, page, cycleUi, homeUi, intakeUi, api, pausedFrom>>

NextHome ==
  \/ \E s \in Sessions : OpenHomePage(s)
  \/ \E s \in Sessions, tbl \in {"tenants", "tenant_users"} : UserSelect(s, tbl)
  \/ \E t \in TenantIds, u \in Users : AddMember(t, u)
  \/ \E row \in db["tenant_users"] : RemoveMember(row)

SpecHome == Init /\ [][NextHome]_vars

\* One session posts intake events while its membership may be taken away.
NextPost ==
  \/ IntakeStep({"s1"})
  \/ \E row \in {m \in db["tenant_users"] : m.user_id = "u1"} : RemoveMember(row)

SpecPost == Init /\ [][NextPost]_vars

\* ------------------------------------------------------ starting a cycle
NextStart ==
  \/ \E req \in ApiRequests : ApiStart(req)
  \/ \E job \in api : ApiStartTasks(job)
  \/ OpenHomePage("s1")
  \/ \E t \in TenantIds : HomeStartCycle("s1", t)
  \/ \E job \in starting["s1"] : HomeStartCycleTasks("s1", job)
  \/ OpenTenantPage("s2", "t1")
  \/ StartCycle("s2")
  \/ StartCycleTasks("s2")
  \/ Tick

SpecStart == Init /\ [][NextStart]_vars

\* ------------------------------------------------------ POST /api/tenants
\* Columns of a tenants row; niche, timezone and currency are nullable.
TenantRow(id, name, tier, niche, timezone, currency, created) ==
  [id |-> id, name |-> name, package_tier |-> tier, niche |-> niche,
   timezone |-> timezone, currency |-> currency, created_at |-> created]

\* README, Setup 3: the tenants made by hand, with all their columns.
TenantsDb ==
  [InitialDb EXCEPT
     !["tenants"] = {TenantRow("t1", "Acme", "foundation", {}, {}, {"USD"}, 0),
                     TenantRow("t2", "Birch", "growth", {"retail"}, {}, {}, 0)}]

\* An Authorization header is absent (None) or <<scheme, credentials>>.
\* resolveUser(request), and lines 17-37 of the create route: {} is null.
\* auth.getUser() gives the user of a live access token.
resolveUser(environment, header) ==
  IF header = None THEN {}
  ELSE IF header[1] # "Bearer" THEN {}
  ELSE IF environment.NEXT_PUBLIC_SUPABASE_URL = None
          \/ environment.NEXT_PUBLIC_SUPABASE_ANON_KEY = None THEN {}
  ELSE IF header[2] = "jwt-u1" THEN {"u1"}
  ELSE IF header[2] = "jwt-u2" THEN {"u2"}
  ELSE {}

\* A JSON body of the tenant routes: a key is absent ({}) or carries {value};
\* nulls names the keys sent as JSON null.
TenantBody(name, tier, niche, timezone, currency, nulls) ==
  [json |-> TRUE, name |-> name, package_tier |-> tier, niche |-> niche,
   timezone |-> timezone, currency |-> currency, nulls |-> nulls]

\* Bodies of the create route; the second is what NewTenantPage.onSubmit
\* sends for a form with its optional texts left empty.
CreateBodies ==
  {[json |-> FALSE],
   TenantBody({"Cedar"}, {"foundation"}, {""}, {""}, {""}, {}),
   TenantBody({"Cedar"}, {"cfo_lite"}, {"retail"}, {"Europe/Paris"}, {"EUR"}, {}),
   TenantBody({" "}, {"growth"}, {}, {}, {}, {}),
   TenantBody({""}, {"growth"}, {}, {}, {}, {}),
   TenantBody({}, {"growth"}, {}, {}, {}, {}),
   TenantBody({"Cedar"}, {}, {}, {}, {}, {}),
   TenantBody({"Cedar"}, {"platinum"}, {}, {}, {}, {}),
   TenantBody({"Cedar"}, {"growth"}, {}, {}, {}, {"niche"}),
   TenantBody({"Cedar"}, {"growth"}, {}, {}, {"EUR and more"}, {})}

\* With a login: every body.  Without one: the form's body and one that is
\* not JSON.
CreateRequests ==
  [auth : {<<"Bearer", "jwt-u1">>}, body : CreateBodies]
  \cup [auth : {None, <<"Bearer", "jwt-u2">>, <<"Bearer", "expired">>,
                <<"Basic", "jwt-u1">>},
        body : {[json |-> FALSE],
                TenantBody({"Cedar"}, {"foundation"}, {""}, {""}, {""}, {})}]

\* createTenantSchema.safeParse(body).success
createTenantSchema(body) ==
  /\ body.nulls = {}
  /\ \E x \in body.name : Len(x) >= 1 /\ Len(x) <= 200
  /\ \E x \in body.package_tier : x \in {"foundation", "growth", "cfo_lite"}
  /\ \A x \in body.niche : Len(x) <= 200
  /\ \A x \in body.timezone : Len(x) <= 100
  /\ \A x \in body.currency : Len(x) <= 10

\* .optional().default("") followed by `value || null`
orNull(field) == {x \in field : x # ""}

\* (mutant) the creator is made a viewer
OwnerRowViewer(tenantId, u) ==
  [tenant_id |-> tenantId, user_id |-> u, role |-> "viewer"]

\* { tenant_id: tenant.id, user_id: userData.user.id, role: "owner" }
OwnerRow(tenantId, u) ==
  [tenant_id |-> tenantId, user_id |-> u, role |-> "owner"]

\* (mutant) the tenant is left behind
RollbackNone(d, tenantId) == Accepted(d, {})

\* admin.from("tenants").delete().eq("id", tenant.id)
Rollback(d, tenantId) == Delete(d, ServiceRole, "tenants", tenantId)

\* .select("id, name, package_tier, niche, timezone, currency")
TenantColumns(row) ==
  [id |-> row.id, name |-> row.name, package_tier |-> row.package_tier,
   niche |-> row.niche, timezone |-> row.timezone, currency |-> row.currency]

\* What the route has answered; status 0 while it still awaits the owner row.
Created(req, status, tenant) ==
  [op |-> "create_tenant", req |-> req, status |-> status, tenant |-> tenant]

\* POST up to its first write: the login, the body, the schema, the tenant.
CreateTenant(req) ==
  /\ Cardinality(api) < MaxApi
  /\ nextId <= MaxIds
  /\ LET user == resolveUser(env, req.auth) IN
     IF user = {}
     THEN /\ last' = Created(req, 401, {}) /\ UNCHANGED <<dbVars, api>>
     ELSE IF ~req.body.json
     THEN /\ last' = Created(req, 500, {}) /\ UNCHANGED <<dbVars, api>>
     ELSE IF ~createTenantSchema(req.body)
     THEN /\ last' = Created(req, 400, {}) /\ UNCHANGED <<dbVars, api>>
     ELSE LET row == TenantRow("new-" \o ToString(nextId),
                               CHOOSE x \in req.body.name : TRUE,
                               CHOOSE x \in req.body.package_tier : TRUE,
                               orNull(req.body.niche), orNull(req.body.timezone),
                               orNull(req.body.currency), clock)
              r == Insert(db, ServiceRole, "tenants", {row})
          IN  /\ db' = r.db
              /\ nextId' = IF r.ok THEN nextId + 1 ELSE nextId
              /\ api' = IF r.ok
                        THEN api \cup {[req |-> req, tenant |-> TenantColumns(row),
                                        user |-> CHOOSE u \in user : TRUE]}
                        ELSE api
              /\ last' = IF r.ok THEN Created(req, 0, {}) ELSE Created(req, 500, {})
  /\ UNCHANGED <<clock, env, page, cycleUi, homeUi, intakeUi, pausedFrom>>

\* POST after the tenant insert: the owner row, the rollback, the response.
CreateTenantOwner(job) ==
  /\ job \in api
  /\ LET r == Insert(db, ServiceRole, "tenant_users",
                     {OwnerRow(job.tenant.id, job.user)})
     IN  IF r.ok
         THEN /\ db' = r.db
              /\ last' = Created(job.req, 200, {job.tenant})
         ELSE /\ db' = Rollback(db, job.tenant.id).db
              /\ last' = Created(job.req, 500, {})
  /\ api' = api \ {job}
  /\ UNCHANGED <<nextId, clock, env, page, cycleUi, homeUi, intakeUi, pausedFrom>>

NextCreate ==
  \/ \E req \in CreateRequests : CreateTenant(req)
  \/ \E job \in api : CreateTenantOwner(job)
  \/ \E t \in db["tenants"] : AddMember(t.id, "u1")

SpecCreate == InitWith(Configured, TenantsDb) /\ [][NextCreate]_vars

\* --------------------------------------------- PATCH /api/tenants/:tenantId
\* patchSchema.safeParse(body).success; unknown keys are stripped
patchSchema(body) ==
  /\ body.nulls \subseteq {"niche", "timezone", "currency"}
  /\ \A x \in body.name : Len(x) >= 1 /\ Len(x) <= 200
  /\ \A x \in body.package_tier : x \in {"foundation", "growth", "cfo_lite"}
  /\ \A x \in body.niche : Len(x) <= 200
  /\ \A x \in body.timezone : Len(x) <= 100
  /\ \A x \in body.currency : Len(x) <= 10

\* (mutant) the keys the payload leaves out are written as null
PatchReplace(row, body) ==
  [row EXCEPT
     !.name = IF body.name # {} THEN CHOOSE x \in body.name : TRUE ELSE @,
     !.package_tier = IF body.package_tier # {}
                      THEN CHOOSE x \in body.package_tier : TRUE ELSE @,
     !.niche = body.niche,
     !.timezone = body.timezone,
     !.currency = body.currency]

\* .update(parsed.data): the row with the keys of the payload written over
Patch(row, body) ==
  [row EXCEPT
     !.name = IF body.name # {} THEN CHOOSE x \in body.name : TRUE ELSE @,
     !.package_tier = IF body.package_tier # {}
                      THEN CHOOSE x \in body.package_tier : TRUE ELSE @,
     !.niche = IF body.niche # {} \/ "niche" \in body.nulls THEN body.niche ELSE @,
     !.timezone = IF body.timezone # {} \/ "timezone" \in body.nulls
                  THEN body.timezone ELSE @,
     !.currency = IF body.currency # {} \/ "currency" \in body.nulls
                  THEN body.currency ELSE @]

\* The first body is what TenantSettingsPage.onSubmit sends; the ninth
\* carries keys the schema does not know (extra).  The owner u1 sends every
\* body for t1 and the form's body for the tenant of others and for no
\* tenant; the viewer u2 and requests without a login send the form's body or
\* one that is not JSON for t1.
PatchRequests ==
  LET form == TenantBody({"Acme Ltd"}, {"growth"}, {}, {"UTC"}, {},
                         {"niche", "currency"})
      bodies ==
        {form,
         TenantBody({"Acme Ltd"}, {}, {}, {}, {}, {}),
         TenantBody({}, {}, {}, {}, {"EUR"}, {}),
         TenantBody({}, {}, {}, {}, {}, {}),
         TenantBody({""}, {}, {}, {}, {}, {}),
         TenantBody({}, {}, {}, {}, {}, {"name"}),
         TenantBody({}, {"platinum"}, {}, {}, {}, {}),
         TenantBody({}, {}, {}, {}, {"EUR and more"}, {}),
         TenantBody({}, {}, {"retail"}, {}, {}, {}) @@ [extra |-> {"id", "created_at"}],
         [json |-> FALSE]}
  IN  [auth : {<<"Bearer", "jwt-u1">>}, tenantId : {"t1"}, body : bodies]
      \cup [auth : {<<"Bearer", "jwt-u1">>}, tenantId : {"t2", "t9"}, body : {form}]
      \cup [auth : {None, <<"Bearer", "jwt-u2">>, <<"Bearer", "expired">>,
                    <<"Basic", "jwt-u1">>},
            tenantId : {"t1"}, body : {[json |-> FALSE], form}]

\* What the route has answered; status 0 while it still awaits its update.
Patched(req, status, tenant) ==
  [op |-> "patch_tenant", req |-> req, status |-> status, tenant |-> tenant]

\* PATCH up to its membership lookup.
PatchTenant(req) ==
  /\ Cardinality(api) < MaxApi
  /\ LET user == resolveUser(env, req.auth) IN
     IF user = {}
     THEN /\ last' = Patched(req, 401, {}) /\ UNCHANGED api
     ELSE IF ~\E m \in Select(db, ServiceRole, "tenant_users") :
                m.tenant_id = req.tenantId /\ m.user_id \in user
     THEN /\ last' = Patched(req, 403, {}) /\ UNCHANGED api
     ELSE /\ last' = Patched(req, 0, {})
          /\ api' = api \cup {[req |-> req, user |-> CHOOSE u \in user : TRUE]}
  /\ UNCHANGED <<dbVars, clock, env, page, cycleUi, homeUi, intakeUi, pausedFrom>>

\* PATCH after the lookup: the body, the schema, the update, the response.
\* An update of no column at all is left to the database library: it
\* touches nothing, and answers with the row or with an error.
PatchTenantUpdate(job) ==
  /\ job \in api
  /\ LET body == job.req.body IN
     IF ~body.json
     THEN /\ last' = Patched(job.req, 500, {}) /\ UNCHANGED db
     ELSE IF ~patchSchema(body)
     THEN /\ last' = Patched(job.req, 400, {}) /\ UNCHANGED db
     ELSE LET hit == {r \in db["tenants"] : r.id = job.req.tenantId}
              new == {Patch(r, body) : r \in hit}
          IN  IF body.nulls = {} /\ \A k \in {"name", "package_tier", "niche",
                                             "timezone", "currency"} : body[k] = {}
              THEN /\ UNCHANGED db
                   /\ \E answer \in {{}, hit} :
                        last' = Patched(job.req, IF answer = {} THEN 500 ELSE 200,
                                        {TenantColumns(r) : r \in answer})
              ELSE /\ db' = [db EXCEPT !["tenants"] = (@ \ hit) \cup new]
                   /\ last' = IF new = {} THEN Patched(job.req, 500, {})
                              ELSE Patched(job.req, 200,
                                           {TenantColumns(r) : r \in new})
  /\ api' = api \ {job}
  /\ UNCHANGED <<nextId, clock, env, page, cycleUi, homeUi, intakeUi, pausedFrom>>

NextPatch ==
  \/ \E req \in PatchRequests : PatchTenant(req)
  \/ \E job \in api : PatchTenantUpdate(job)
  \/ \E row \in {m \in db["tenant_users"] : m.user_id = "u2"} : RemoveMember(row)

SpecPatch == InitWith(Configured, TenantsDb) /\ [][NextPatch]_vars

\* ------------------------------------------------- the cycle's checklist
\* (mutant) todo goes straight to done
TASK_STATUS_SKIP ==
  [todo |-> "done", in_progress |-> "done", done |-> "todo"]

TASK_STATUS_NEXT ==
  [todo |-> "in_progress", in_progress |-> "done", done |-> "todo"]

\* A click on a task's box: onTaskToggled(cycle.id, task.id,
\* TASK_STATUS_NEXT[task.status] ?? "todo"), that is handleTaskToggle.  The
\* clicks go to the last MaxTasks tasks of the checklist.  `last` keeps the
\* run of clicks of one session on one task: its length (1 to 3) and the
\* status shown when it began.
handleTaskToggle(s, cycle, task) ==
  /\ OnTenantPage(s)
  /\ cycle \in cycles[s]
  /\ task \in cycle.tasks
  /\ task.id[2] > Len(defaultTasks) - MaxTasks
  /\ LET newStatus == IF task.status \in DOMAIN TASK_STATUS_NEXT
                      THEN TASK_STATUS_NEXT[task.status] ELSE "todo"
         goesOn == /\ last.op = "toggle"
                   /\ last.who = s
                   /\ last.tid = task.id
                   /\ last.run < 3
     IN  /\ db' = Update(db, Client(s), "cycle_tasks", task.id, "status", newStatus).db
         /\ cycles' = [cycles EXCEPT ![s] =
              {IF c.id = cycle.id
               THEN [c EXCEPT !.tasks =
                       {IF t.id = task.id THEN [t EXCEPT !.status = newStatus] ELSE t :
                          t \in c.tasks}]
               ELSE c : c \in @}]
         /\ last' = [op |-> "toggle", who |-> s, cid |-> cycle.id, tid |-> task.id,
                     from |-> task.status, to |-> newStatus,
                     run |-> IF goesOn THEN last.run + 1 ELSE 1,
                     origin |-> IF goesOn THEN last.origin ELSE task.status]
  /\ UNCHANGED <<nextId, clock, env, page, confirmAdvance, prePauseStatus, starting,
                 homeUi, intakeUi, api, pausedFrom>>

\* Tenant t1 some way into its work: this month's cycle (id 11) with its
\* eight tasks, all done but the last MaxTasks, of which the very last has
\* the given status (the column is text); last month's cycle (id 12), whose
\* task insert never happened.
TasksDb(lastStatus) ==
  [InitialDb EXCEPT
     !["service_cycles"] =
        {[id |-> 11, tenant_id |-> "t1", month |-> startOfMonth(0),
          status |-> "collecting"],
         [id |-> 12, tenant_id |-> "t1", month |-> [y |-> 2026, m |-> 10, d |-> 1],
          status |-> "reporting"]},
     !["cycle_tasks"] =
        {[t EXCEPT !.status = IF t.id[2] = Len(defaultTasks) THEN lastStatus
                              ELSE IF t.id[2] > Len(defaultTasks) - MaxTasks THEN "todo"
                              ELSE "done"] : t \in TaskRows(11, 11, "t1")}]

NextTasks ==
  \/ OpenTenantPage("s1", "t1")
  \/ \E c \in cycles["s1"] : \E t \in c.tasks : handleTaskToggle("s1", c, t)
  \/ \E c \in cycles["s1"] : advanceCycle("s1", c)
  \/ \E c \in cycles["s1"] : cancelAdvance("s1", c)

SpecTasks ==
  /\ \E lastStatus \in {"todo", "blocked"} : InitWith(Configured, TasksDb(lastStatus))
  /\ [][NextTasks]_vars

\* ------------------------------------------------------ the analytics page
\* pct(done, total): Math.round((done / total) * 100), 0 for no total
pct(done, total) ==
  IF total = 0 THEN 0 ELSE (200 * done + total) \div (2 * total)

\* load(): cycleRows, one row per cycle the query returned; done_tasks is
\* read off the cycle's status.  The row keeps the cycle's month as its label.
cycleRows(allCycles) ==
  {[month |-> DateOut(c.month), status |-> c.status, total_tasks |-> 8,
    done_tasks |-> IF c.status = "delivered" THEN 8
                   ELSE IF c.status = "reporting" THEN 6
                   ELSE IF c.status = "reconciling" THEN 4
                   ELSE IF c.status = "processing" THEN 2
                   ELSE 0] : c \in allCycles}

RECURSIVE SumPct(_)
\* cycleRows.reduce((s, c) => s + pct(c.done_tasks, c.total_tasks), 0)
SumPct(rows) ==
  IF rows = {} THEN 0
  ELSE LET c == CHOOSE r \in rows : TRUE
       IN  pct(c.done_tasks, c.total_tasks) + SumPct(rows \ {c})

\* avgCycleCompletion: Math.round of the mean, 0 for no rows
avgCycleCompletion(rows) ==
  IF rows = {} THEN 0
  ELSE (2 * SumPct(rows) + Cardinality(rows)) \div (2 * Cardinality(rows))

\* Opening the analytics page: load().  The cycles are those of the tenant
\* from five months back to the end of this month; the bar chart draws
\* dataKey "done_tasks" under the name "Completion %", the KPI card shows
\* avgCycleCompletion with "%".
loadAnalytics(s, tenantId) ==
  /\ LET now == 12 * startOfMonth(clock).y + startOfMonth(clock).m
         cyclesRes == {c \in Select(db, Client(s), "service_cycles") :
                         /\ c.tenant_id = tenantId
                         /\ 12 * c.month.y + c.month.m >= now - 5
                         /\ 12 * c.month.y + c.month.m <= now}
         rows == cycleRows(cyclesRes)
     IN  last' = [op |-> "analytics", who |-> s, tenantId |-> tenantId,
                  chart |-> {[month |-> r.month, value |-> r.done_tasks] : r \in rows},
                  avgCycleCompletion |-> avgCycleCompletion(rows)]
  /\ UNCHANGED <<dbVars, clock, env, page, cycleUi, homeUi, intakeUi, api, pausedFrom>>

NextAnalytics ==
  \/ NextTasks
  \/ loadAnalytics("s1", "t1")

SpecAnalytics ==
  /\ \E lastStatus \in {"todo", "blocked"} : InitWith(Configured, TasksDb(lastStatus))
  /\ [][NextAnalytics]_vars

\* ------------------------------------- writes on tenants and tenant_users
\* A statement that names one row by its key: insert(new), or
\* update(...).eq(key) turning row into new, or delete().eq(key).  Rows the
\* caller may not see or change are skipped; tenant_users has no dependents.
KeyedWrite(d, client, tbl, cmd, row, new) ==
  LET may == /\ row \in d[tbl]
             /\ Policy(d, client, tbl, "select", row)
             /\ Policy(d, client, tbl, cmd, row)
      d2  == [d EXCEPT ![tbl] = (@ \ {row}) \cup {new}]
  IN  IF cmd = "insert" THEN Insert(d, client, tbl, {new})
      ELSE IF ~may THEN Accepted(d, {})
      ELSE IF cmd = "delete"
      THEN IF tbl = "tenants" THEN Delete(d, client, tbl, row.id)
           ELSE Accepted([d EXCEPT ![tbl] = @ \ {row}], {row})
      ELSE IF ~Policy(d, client, tbl, "update", new) THEN Refused(d, "rls")
      ELSE IF ~ForeignKeys(d2, tbl, new) THEN Refused(d, "foreign key")
      ELSE IF ~Unique(d2, tbl, new) THEN Refused(d, "unique")
      ELSE Accepted(d2, {new})

\* supabase.from(tbl).insert / update / delete on tenants or tenant_users,
\* with the anon key and a login or with the service role key (the SQL
\* editor of README, Setup 3-5).
KeyedStatement(client, tbl, cmd, row, new) ==
  /\ client = ServiceRole /\ cmd = "insert"
       => Cardinality(db[tbl]) < MaxRows
  /\ LET r == KeyedWrite(db, client, tbl, cmd, row, new) IN
       /\ db' = r.db
       /\ last' = [op |-> cmd, client |-> client, tbl |-> tbl, row |-> new,
                   ok |-> r.ok, rows |-> r.rows]
  /\ UNCHANGED <<nextId, clock, env, page, cycleUi, homeUi, intakeUi, api, pausedFrom>>

NextMembers ==
  \/ \E c \in Clients, t \in db["tenants"], u \in Users :
       LET new == OwnerRow(t.id, u)
       IN  KeyedStatement(c, "tenant_users", "insert", new, new)
  \/ \E s \in Sessions, row \in db["tenant_users"] :
       KeyedStatement(Client(s), "tenant_users", "update", row,
                      OwnerRow(row.tenant_id, row.user_id))
  \/ \E c \in Clients, row \in db["tenant_users"] :
       KeyedStatement(c, "tenant_users", "delete", row, row)
  \/ \E s \in Sessions :
       LET new == TenantRow("t3", "Mine", "growth", {}, {}, {}, clock)
       IN  KeyedStatement(Client(s), "tenants", "insert", new, new)
  \/ \E s \in Sessions, row \in db["tenants"] :
       KeyedStatement(Client(s), "tenants", "update", row, [row EXCEPT !.name = "Mine"])
  \/ \E s \in Sessions, row \in db["tenants"] :
       KeyedStatement(Client(s), "tenants", "delete", row, row)
  \/ \E req \in {r \in CreateRequests :
                   r.body = TenantBody({"Cedar"}, {"foundation"}, {""}, {""}, {""}, {})} :
       Cardinality(db["tenants"]) <= MaxRows /\ CreateTenant(req)
  \/ \E job \in api : CreateTenantOwner(job)

SpecMembers == InitWith(Configured, TenantsDb) /\ [][NextMembers]_vars

\* ------------------------------------------------ the user check of a page
\* The pages under /app and the tables their load() (run() on the home and
\* settings pages) selects from.
PageTables ==
  [home         |-> {"tenant_users", "tenants", "service_cycles"},
   tenant       |-> {"tenants", "service_cycles", "cycle_tasks", "deliverables",
                     "intake_events", "invoices", "missing_data_alerts"},
   transactions |-> {"tenants", "transactions", "categories"},
   entities     |-> {"tenants", "entities"},
   analytics    |-> {"tenants", "transactions", "budgets", "categories",
                     "service_cycles", "cycle_tasks", "invoices"},
   history      |-> {"tenants", "service_cycles", "cycle_tasks", "deliverables"},
   settings     |-> {"tenants"}]

\* A page mounts: every useState starts over and the effect calls
\* supabase.auth.getUser(); nothing else runs until it resolves.
Mount(s, kind, tenantId) ==
  /\ page' = [page EXCEPT ![s] =
                [kind |-> kind, tenantId |-> tenantId, step |-> "getUser",
                 user |-> {}, data |-> [tbl \in PageTables[kind] |-> {}]]]
  /\ cycles' = [cycles EXCEPT ![s] = {}]
  /\ intake' = [intake EXCEPT ![s] = {}]
  /\ confirmAdvance' = [confirmAdvance EXCEPT ![s] = {}]
  /\ prePauseStatus' = [prePauseStatus EXCEPT ![s] = Empty]
  /\ starting' = [starting EXCEPT ![s] = {}]
  /\ txForm' = [txForm EXCEPT ![s] = {}]
  /\ txSaving' = [txSaving EXCEPT ![s] = {}]
  /\ homeRows' = [homeRows EXCEPT ![s] = NoRows]
  /\ homeCycles' = [homeCycles EXCEPT ![s] = Empty]
  /\ startingCycle' = [startingCycle EXCEPT ![s] = {}]
  /\ last' = [op |-> "mount", who |-> s]
  /\ UNCHANGED <<dbVars, clock, env, api, pausedFrom>>

\* (mutant) the page goes on to its queries whoever is signed in
userCheckSkipped(at, user) == [at EXCEPT !.step = "queries", !.user = user]

\* if (!userData.user) { router.replace("/login"); return; }
userCheck(at, user) ==
  IF user = {} THEN [kind |-> "login", tenantId |-> None]
  ELSE [at EXCEPT !.step = "queries", !.user = user]

\* auth.getUser() resolves with the user of the browser's session, or null
getUser(s, user) ==
  /\ "step" \in DOMAIN page[s]
  /\ page[s].step = "getUser"
  /\ page' = [page EXCEPT ![s] = userCheck(@, user)]
  /\ last' = [op |-> "getUser", who |-> s, user |-> user,
              kind |-> page[s].kind, tenantId |-> page[s].tenantId]
  /\ UNCHANGED <<dbVars, clock, env, cycleUi, homeUi, intakeUi, api, pausedFrom>>

\* The rest of load() / run(): the selects and what they set.  The pages
\* other than the home and tenant pages keep their rows only when the tenant
\* select found its row.
PageQueries(s) ==
  /\ "step" \in DOMAIN page[s]
  /\ page[s].step = "queries"
  /\ LET at == page[s] IN
     IF at.kind = "tenant" THEN OpenTenantPage(s, at.tenantId)
     ELSE IF at.kind = "home" THEN OpenHomePage(s)
     ELSE LET res == [tbl \in PageTables[at.kind] |->
                        {r \in Select(db, Client(s), tbl) :
                           (IF tbl = "tenants" THEN r.id ELSE r.tenant_id) = at.tenantId}]
          IN  /\ page' = [page EXCEPT ![s] =
                            [at EXCEPT !.step = "loaded",
                                       !.data = IF Cardinality(res["tenants"]) = 1
                                                THEN res ELSE @]]
              /\ last' = [op |-> "load", who |-> s]
              /\ UNCHANGED <<dbVars, clock, env, cycleUi, homeUi, intakeUi, api,
                             pausedFrom>>

NextGuard ==
  \/ \E s \in Sessions : Mount(s, "home", None)
  \/ \E s \in Sessions, kind \in DOMAIN PageTables \ {"home"}, t \in PathIds :
       Mount(s, kind, t)
  \/ \E s \in Sessions : \E user \in {{}, {SessionUser(s)}} : getUser(s, user)
  \/ \E s \in Sessions : PageQueries(s)

SpecGuard == InitWith(Configured, TasksDb("todo")) /\ [][NextGuard]_vars

\* ==================================================================== claims
\* The position of a status in collecting -> processing -> reconciling ->
\* reporting -> delivered, written out; paused and anything else has none.
Position(status) ==
  CASE status = "collecting"  -> 0
    [] status = "processing"  -> 1
    [] status = "reconciling" -> 2
    [] status = "reporting"   -> 3
    [] status = "delivered"   -> 4
    [] OTHER -> -1

\* The status session s shows for cycle id.
Shown(view, s, id) ==
  IF \E c \in view[s] : c.id = id
  THEN (CHOOSE c \in view[s] : c.id = id).status
  ELSE None

CycleStatus(d, id) == StoredStatus(d, "service_cycles", id)

OtherCyclesKept(id) ==
  \A c \in db["service_cycles"] : c.id # id => c \in db'["service_cycles"]

\* C1: advancing moves a cycle exactly one step forward in the fixed order.
\* Whenever advanceCycle, called on a cycle shown at position i, writes, i < 4
\* and both the stored and the shown status become the status at position
\* i + 1 (so, the view being current, the stored status moves one step, never
\* two and never back); it writes nothing only for a cycle with no next
\* status or when open tasks still wait for the confirmation; no other cycle
\* changes.
C1_AdvanceOneStep ==
  [][last'.op = "advance" =>
       LET s    == last'.who
           id   == last'.cid
           seen == Shown(cycles, s, id)
           open == {c \in cycles[s] : c.id = id /\ openTasks(c) # {}}
       IN  /\ last'.wrote =>
                /\ Position(seen) \in 0..3
                /\ Position(CycleStatus(db', id)) = Position(seen) + 1
                /\ Position(Shown(cycles', s, id)) = Position(seen) + 1
                /\ CycleStatus(db, id) = seen =>
                     Position(CycleStatus(db', id)) = Position(CycleStatus(db, id)) + 1
           /\ ~last'.wrote =>
                /\ Position(seen) \notin 0..3 \/ (open # {} /\ confirmAdvance[s] # {id})
                /\ db' = db
                /\ cycles' = cycles
           /\ OtherCyclesKept(id)]_vars

\* C1 witness: a cycle was advanced all the way to delivered.
C1_Witness ==
  /\ last.op = "advance"
  /\ last.wrote
  /\ CycleStatus(db, last.cid) = "delivered"
  /\ Shown(cycles, last.who, last.cid) = "delivered"

Pausable == {"collecting", "processing", "reconciling", "reporting"}

\* C2: paused is a side-state.  Pause is offered for a cycle shown as
\* collecting, processing, reconciling or reporting, and pauseCycle stores
\* paused; for a cycle shown as paused the Advance control is not offered and
\* advanceCycle, if called, writes nothing.
C2_PausedSideState ==
  [][/\ \A s \in Sessions : \A c \in cycles[s] :
          /\ c.status \in Pausable => canPause(c)
          /\ c.status = "paused" => ~canAdvance(c)
     /\ last'.op = "pause" =>
          /\ Shown(cycles, last'.who, last'.cid) \in Pausable
          /\ last'.wrote
          /\ CycleStatus(db', last'.cid) = "paused"
          /\ Shown(cycles', last'.who, last'.cid) = "paused"
          /\ OtherCyclesKept(last'.cid)
     /\ (last'.op = "advance" /\ Shown(cycles, last'.who, last'.cid) = "paused") =>
          /\ ~last'.wrote
          /\ db' = db
          /\ cycles' = cycles]_vars

\* C2 witness: advanceCycle ran on a cycle shown as paused (through Confirm,
\* left open from before the pause) and the stored status is still paused.
C2_Witness ==
  /\ last.op = "advance"
  /\ ~last.wrote
  /\ Shown(cycles, last.who, last.cid) = "paused"
  /\ CycleStatus(db, last.cid) = "paused"

\* C3 (as claimed): a resume stores the status the cycle had immediately
\* before it was paused, whatever happened in between.
C3_ResumeRestores ==
  [][(last'.op = "resume" /\ CycleStatus(db, last'.cid) = "paused") =>
       CycleStatus(db', last'.cid) = pausedFrom[last'.cid]]_vars

\* C4: delivered is final in the dashboard.  For a cycle shown as delivered
\* neither Advance nor Pause (nor Resume) is offered, advanceCycle writes
\* nothing, and no action of that session changes the cycle's stored status.
C4_DeliveredFinal ==
  [][\A s \in Sessions : \A c \in cycles[s] :
       c.status = "delivered" =>
         /\ ~canAdvance(c)
         /\ ~canPause(c)
         /\ (last'.op \in {"advance", "cancel", "pause", "resume"}
              /\ last'.who = s /\ last'.cid = c.id) =>
               /\ last'.op \in {"advance", "cancel"}
               /\ ~last'.wrote
               /\ db' = db
         /\ (last'.op \in {"start", "start_tasks", "open"} /\ last'.who = s) =>
               CycleStatus(db', c.id) = CycleStatus(db, c.id)]_vars

\* C4 witness: a session shows a cycle it has just advanced to delivered, the
\* stored status is delivered, and none of Advance, Pause and Resume is offered.
C4_Witness ==
  \E s \in Sessions : \E c \in cycles[s] :
    /\ c.status = "delivered"
    /\ CycleStatus(db, c.id) = "delivered"
    /\ last.op = "advance" /\ last.who = s /\ last.cid = c.id /\ last.wrote
    /\ ~canAdvance(c) /\ ~canPause(c) /\ confirmAdvance[s] = {}


\* ---------------------------------------------------------------------- C5
IntakePosition(status) == indexOf(<<"new", "categorized", "posted">>, status)

ShownEvent(view, s, id) == CHOOSE e \in view[s] : e.id = id

IntakeOps == {"categorize", "open_form", "cancel_form", "post"}

\* C5: on the tenant page an intake event goes new -> categorized -> posted and
\* never back: "Mark categorized" is offered only for an event shown as new and
\* sets categorized; "Create transaction" is offered only for one shown as
\* categorized and its form's "Post transaction" sets posted; an event shown as
\* posted offers no action at all; no intake action of the page lowers the
\* status an event is shown with.
C5_IntakeFlow ==
  [][/\ \A s \in Sessions : \A e \in intake[s] :
          /\ offersMarkCategorized(e) => e.status = "new"
          /\ offersCreateTransaction(s, e) => e.status = "categorized"
          /\ e.status = "posted" =>
               ~(\/ offersMarkCategorized(e) \/ offersCreateTransaction(s, e)
                 \/ offersCancel(s, e) \/ offersPostTransaction(s, e))
     /\ last'.op \in IntakeOps =>
          LET before == ShownEvent(intake, last'.who, last'.eid)
              after  == ShownEvent(intake', last'.who, last'.eid)
          IN  /\ IntakePosition(after.status) >= IntakePosition(before.status)
              /\ last'.op = "categorize" =>
                   before.status = "new" /\ after.status = "categorized"
              /\ (last'.op = "post" /\ last'.wrote) =>
                   before.status = "categorized" /\ after.status = "posted"
              /\ after.status # before.status =>
                   IntakePosition(after.status) = IntakePosition(before.status) + 1]_vars


\* ---------------------------------------------------------------------- C6
IsMember(d, u, tenantId) ==
  \E m \in d["tenant_users"] : m.tenant_id = tenantId /\ m.user_id = u

\* The rows of a table a step adds, removes or changes.
Touched(tbl) == (db[tbl] \ db'[tbl]) \cup (db'[tbl] \ db[tbl])

DirectOps == {"select", "insert", "update", "delete"}

ListedIds(s) == {t.id : t \in Listed(homeRows[s].rows)}

MemberOf(d, u) == {t \in TenantIds : IsMember(d, u, t)}

\* C7: a select on tenants returns a logged-in user only tenants the user has
\* a tenant_users row for, and the home page, once loaded, lists exactly the
\* tenants of the user's tenant_users rows: nothing for a user without one.
C7_TenantsOfMember ==
  [][/\ (last'.op = "select" /\ last'.tbl = "tenants") =>
          \A t \in last'.rows : IsMember(db, last'.client.uid, t.id)
     /\ last'.op = "home" =>
          /\ homeRows'[last'.who].loaded
          /\ {t.id : t \in Listed(homeRows'[last'.who].rows)}
               = MemberOf(db, SessionUser(last'.who))
          /\ MemberOf(db, SessionUser(last'.who)) = {}
               => homeRows'[last'.who].rows = {}]_vars

\* C7 witness: one user's list shows t1 and not t2, the other user, who has
\* no tenant_users row, has loaded an empty list.
C7_Witness ==
  /\ last.op = "home"
  /\ \E s \in Sessions, o \in Sessions :
       /\ homeRows[s].loaded /\ ListedIds(s) = {"t1"}
       /\ MemberOf(db, SessionUser(s)) = {"t1"}
       /\ homeRows[o].loaded /\ homeRows[o].rows = {}
       /\ MemberOf(db, SessionUser(o)) = {}

\* ---------------------------------------------------------------------- C8
CycleFor(d, tenantId, date) ==
  {c \in d["service_cycles"] : c.tenant_id = tenantId /\ c.month = date}

\* What a cycle-start request has to bring for the route to go through, given
\* which month texts count (Month is MonthRegex or a calendar date).
Starts(req, Month(_)) ==
  /\ env.DASHBOARD_ADMIN_TOKEN # None
  /\ req.token = env.DASHBOARD_ADMIN_TOKEN
  /\ req.body.json
  /\ \E m \in req.body.month : Month(m)
  /\ \E t \in db["tenants"] : t.id = req.tenantId

IsCalendarDate(m) == DateIn(m).ok

\* The route's two steps do what the generator is to do.
Generates(req) ==
  LET date == DateIn(CHOOSE m \in req.body.month : TRUE).date
      new  == db'["cycle_tasks"] \ db["cycle_tasks"]
  IN  /\ last'.status \in {0, 200}
      /\ Cardinality(CycleFor(db', req.tenantId, date)) = 1
      /\ \A c \in CycleFor(db', req.tenantId, date) :
           /\ c.status = "collecting"
           /\ last'.status = 200 =>
                /\ last'.cycle = {c}
                /\ Cardinality(new) = Len(defaultTasks)
                /\ {t.task_type : t \in new} = {defaultTasks[i] : i \in 1..Len(defaultTasks)}
                /\ \A t \in new : /\ t.status = "todo"
                                  /\ t.service_cycle_id = c.id
                                  /\ t.tenant_id = req.tenantId

\* C8 (as stated): a cycle-start request for a tenant with the admin token and
\* a month of the form YYYY-MM-DD leaves a service_cycles row for (tenantId,
\* month) with status collecting, inserts the eight default tasks with status
\* todo, the cycle's id and the tenant's id, and answers ok with the cycle.
C8_StartGenerates ==
  [][(last'.op = "api_start" /\ Starts(last'.req, MonthRegex))
       => (DateIn(CHOOSE m \in last'.req.body.month : TRUE).ok /\ Generates(last'.req))]_vars

\* C8 (amended): the same for a month that is a calendar date written
\* YYYY-MM-DD.
C8_StartGeneratesForDates ==
  [][(last'.op = "api_start" /\ Starts(last'.req, IsCalendarDate))
       => Generates(last'.req)]_vars

\* C8 witness: the route has answered ok and the cycle has its eight tasks.
C8_Witness ==
  /\ last.op = "api_start"
  /\ last.status = 200
  /\ \E c \in last.cycle :
       /\ c \in db["service_cycles"]
       /\ Cardinality({t \in db["cycle_tasks"] : t.service_cycle_id = c.id})
            = Len(defaultTasks)

\* ---------------------------------------------------------------------- C9
TokenOk(req) == req.token # None /\ req.token = env.DASHBOARD_ADMIN_TOKEN

BodyOk(req) == req.body.json /\ \E m \in req.body.month : MonthRegex(m)

\* C9: with DASHBOARD_ADMIN_TOKEN configured, the cycle-start route writes
\* only for a request whose x-admin-token equals it and whose body's month has
\* the form YYYY-MM-DD; a missing or wrong token is answered 401 whatever the
\* body, a malformed body 400, both without a write.
C9_AdminOnly ==
  [][(last'.op = "api_start" /\ env.DASHBOARD_ADMIN_TOKEN # None) =>
       /\ db' # db => (TokenOk(last'.req) /\ BodyOk(last'.req))
       /\ ~TokenOk(last'.req) => (last'.status = 401 /\ db' = db)
       /\ (TokenOk(last'.req) /\ ~BodyOk(last'.req))
            => (last'.status = 400 /\ db' = db)]_vars

\* --------------------------------------------------------------------- C10
\* C10: no two service_cycles rows share tenant_id and month, whatever the
\* API route, the home page's and the tenant page's Start cycle have done.
C10_OneCyclePerMonth ==
  \A a \in db["service_cycles"], b \in db["service_cycles"] :
     (a.tenant_id = b.tenant_id /\ a.month = b.month) => a = b

\* C10 witness: two start operations have gone through for the same tenant and
\* month (the cycle has the tasks of two batches), and there is one row.
C10_Witness ==
  \E c \in db["service_cycles"] :
     /\ Cardinality({t.id[1] : t \in {x \in db["cycle_tasks"] : x.service_cycle_id = c.id}}) >= 2
     /\ CycleFor(db, c.tenant_id, c.month) = {c}


\* --------------------------------------------------------------------- C11
IntakeTokenOk(got) == got # None /\ got = env.INTAKE_SHARED_SECRET

\* A request the route is to take in, given which bodies count.
Ingests(got, body, Counts(_)) ==
  /\ env.INTAKE_SHARED_SECRET # None
  /\ IntakeTokenOk(got)
  /\ intakeSchema(body)
  /\ \E t \in db["tenants"] : t.id = body.tenant_id
  /\ Counts(body)

AnyBody(body) == TRUE

\* Dates that are calendar dates, amounts with no more than two decimals.
Storable(body) ==
  /\ \A dt \in body.date : DateIn(dt).ok
  /\ \A a \in body.amount : a % 10 = 0

\* The step has answered ok and added one row, the body's, and nothing else.
TakenIn(body) ==
  LET new == db'["intake_events"] \ db["intake_events"] IN
  /\ last'.status = 200
  /\ Cardinality(new) = 1
  /\ db["intake_events"] \subseteq db'["intake_events"]
  /\ \A tbl \in RlsTables \ {"intake_events"} : db'[tbl] = db[tbl]
  /\ \A r \in new :
       /\ r.tenant_id = body.tenant_id
       /\ r.source = body.source
       /\ r.status = "new"
       /\ {DateOut(x) : x \in r.date} = body.date
       /\ r.amount = body.amount
       /\ r.description = body.description
       /\ r.attachment_url = body.attachment_url
       /\ r.raw_payload = body.raw_payload

C12_IntakeGuarded ==
  [][(last'.op = "intake" /\ env.INTAKE_SHARED_SECRET # None) =>
       /\ db' # db => (IntakeTokenOk(last'.token) /\ intakeSchema(last'.body))
       /\ ~IntakeTokenOk(last'.token)
            => (last'.status = 401 /\ db'["intake_events"] = db["intake_events"])
       /\ (IntakeTokenOk(last'.token) /\ ~intakeSchema(last'.body))
            => (last'.status = 400 /\ db'["intake_events"] = db["intake_events"])]_vars

\* ------------------------------------------------------------------- C13
\* The tables a step has left as they were.
Kept(tbls) == \A tbl \in tbls : db'[tbl] = db[tbl]

\* The request of `last` came with a login and a body the create schema takes.
CreateAccepted(res) ==
  /\ resolveUser(env, res.req.auth) # {}
  /\ res.req.body.json
  /\ createTenantSchema(res.req.body)

\* C13: a POST /api/tenants that answers 200 was sent by an authenticated user
\* u with a valid payload; its first write added exactly one tenants row
\* and nothing else, its second write added exactly one tenant_users row,
\* (that tenant, u, owner), and nothing else; the tenant it returns is the
\* stored row.
C13_CreatorIsOwner ==
  [][(last'.op = "create_tenant" /\ last'.status \in {0, 200}) =>
       /\ CreateAccepted(last')
       /\ last'.status = 0 =>
            \E job \in api' \ api :
              /\ job.user \in resolveUser(env, last'.req.auth)
              /\ \E row \in db'["tenants"] \ db["tenants"] :
                   /\ db'["tenants"] = db["tenants"] \cup {row}
                   /\ TenantColumns(row) = job.tenant
                   /\ row.name \in last'.req.body.name
                   /\ row.package_tier \in last'.req.body.package_tier
              /\ Kept(RlsTables \ {"tenants"})
       /\ last'.status = 200 =>
            \E job \in api \ api' :
              LET owner == [tenant_id |-> job.tenant.id, user_id |-> job.user,
                            role |-> "owner"]
              IN  /\ job.req = last'.req
                  /\ last'.tenant = {job.tenant}
                  /\ owner \notin db["tenant_users"]
                  /\ db'["tenant_users"] = db["tenant_users"] \cup {owner}
                  /\ Cardinality({t \in db'["tenants"] :
                                    TenantColumns(t) = job.tenant}) = 1
                  /\ Kept(RlsTables \ {"tenant_users"})]_vars

\* C13 (witness): a request with a login has been answered 200 and its tenant
\* is stored with its owner.
C13_Witness ==
  /\ last.op = "create_tenant"
  /\ last.status = 200
  /\ \E t \in last.tenant :
       /\ \E row \in db["tenants"] : row.id = t.id
       /\ \E m \in db["tenant_users"] : m.tenant_id = t.id /\ m.role = "owner"

\* ------------------------------------------------------------------- C14
\* C14: when a POST /api/tenants has answered, a tenant it created is stored
\* only together with its owner row; when the owner insert failed the
\* tenants row is gone and the answer is an error; a request that is refused
\* before its first write leaves every table as it was.
C14_CreateRollsBack ==
  [][(last'.op = "create_tenant" /\ last'.status # 0) =>
       IF api = api' THEN Kept(RlsTables)
       ELSE \E job \in api \ api' :
              /\ (\E t \in db'["tenants"] : t.id = job.tenant.id)
                   => [tenant_id |-> job.tenant.id, user_id |-> job.user,
                       role |-> "owner"] \in db'["tenant_users"]
              /\ ~Insert(db, ServiceRole, "tenant_users",
                         {[tenant_id |-> job.tenant.id, user_id |-> job.user,
                           role |-> "owner"]}).ok
                   => /\ \A t \in db'["tenants"] : t.id # job.tenant.id
                      /\ last'.status >= 400]_vars

\* C14 (witness): a request with a login and a valid body has been answered
\* 500: its owner insert failed after its tenant was stored.
C14_Witness ==
  /\ last.op = "create_tenant"
  /\ last.status = 500
  /\ CreateAccepted(last)
  /\ nextId > 1

\* ------------------------------------------------------------------- C15
\* The first step of a PATCH answers or leaves a job; the second takes it.
PatchJobs == api \ api'

\* C15: a PATCH without a valid Bearer token is answered 401; one by a user
\* with no tenant_users row for the tenant is answered 403; one by a member
\* with an invalid payload is answered 400; after each of these answers
\* the tenants rows are the same as before; and the tenants rows change only
\* for a request of a user who had a login and a membership row.
C15_PatchByMember ==
  [][last'.op = "patch_tenant" =>
       LET req  == last'.req
           user == resolveUser(env, req.auth)
       IN  /\ user = {} => last'.status = 401
           /\ (user # {} /\ PatchJobs = {}
                 /\ ~\E m \in db["tenant_users"] :
                       m.tenant_id = req.tenantId /\ m.user_id \in user)
                => last'.status = 403
           /\ (PatchJobs # {} /\ (~req.body.json \/ ~patchSchema(req.body)))
                => last'.status = 400
           /\ last'.status \in {401, 403, 400} => db' = db
           /\ db'["tenants"] # db["tenants"]
                => \E job \in PatchJobs : job.req = req /\ job.user \in user]_vars

\* ------------------------------------------------------------------- C16
PatchKeys == {"name", "package_tier", "niche", "timezone", "currency"}

\* C16: a PATCH leaves every table but tenants, every tenants row but the
\* one of :tenantId, and that row's id and created_at as they were; a key the
\* payload does not carry keeps its value, and on a 200 a key the payload
\* carries has the payload's value (null for a JSON null).
C16_PatchFrame ==
  [][last'.op = "patch_tenant" =>
       LET req == last'.req IN
       /\ Kept(RlsTables \ {"tenants"})
       /\ \A t \in db["tenants"] : t.id # req.tenantId => t \in db'["tenants"]
       /\ Cardinality(db'["tenants"]) = Cardinality(db["tenants"])
       /\ \A t \in db["tenants"] :
            t.id = req.tenantId =>
              \E now \in db'["tenants"] :
                /\ now.id = t.id
                /\ now.created_at = t.created_at
                /\ ~req.body.json => now = t
                /\ req.body.json =>
                     \A k \in PatchKeys :
                       IF req.body[k] = {} /\ k \notin req.body.nulls
                       THEN now[k] = t[k]
                       ELSE last'.status = 200 =>
                              /\ k \in {"name", "package_tier"} => now[k] \in req.body[k]
                              /\ k \notin {"name", "package_tier"} => now[k] = req.body[k]
                              /\ last'.tenant = {TenantColumns(now)}]_vars

\* C16 (witness): a PATCH that carries some keys and not others has been
\* answered 200 and the row differs from the one set up at first.
C16_Witness ==
  /\ last.op = "patch_tenant"
  /\ last.status = 200
  /\ \E k \in PatchKeys : last.req.body[k] = {} /\ k \notin last.req.body.nulls
  /\ \E k \in PatchKeys : last.req.body[k] # {}
  /\ \E t \in db["tenants"] :
       /\ t.id = last.req.tenantId
       /\ t \notin TenantsDb["tenants"]
       /\ last.tenant = {TenantColumns(t)}

\* ------------------------------------------------------------------- C17
\* The cycle of the session's view that the last handler was called with.
Clicked(s, id) == CHOOSE c \in cycles[s] : c.id = id

\* C17: an Advance click on a cycle the session shows with a task that is
\* not done, and that is not being confirmed, writes nothing and only sets
\* confirmAdvance to that cycle; a status is written for a cycle with such
\* a task only by a click while that same cycle is being confirmed; Cancel
\* writes nothing; a cycle whose tasks are all done, or that has none,
\* and that can advance, is advanced by the first click.
C17_AdvanceConfirms ==
  [][/\ last'.op = "advance" =>
          LET s == last'.who
              c == Clicked(s, last'.cid)
              open == \E t \in c.tasks : t.status # "done"
              confirming == confirmAdvance[s] = {c.id}
          IN  /\ (open /\ ~confirming /\ canAdvance(c)) =>
                   /\ ~last'.wrote
                   /\ db' = db
                   /\ cycles' = cycles
                   /\ confirmAdvance'[s] = {c.id}
              /\ (open /\ last'.wrote) => confirming
              /\ ~last'.wrote => db' = db
              /\ (~open /\ canAdvance(c)) =>
                   /\ last'.wrote
                   /\ CycleStatus(db', c.id) = advanceTarget(c)
                   /\ confirmAdvance'[s] = {}
     /\ last'.op = "cancel" =>
          /\ db' = db
          /\ cycles' = cycles
          /\ confirmAdvance'[last'.who] = {}]_vars

\* C17 (witness): a cycle with eight tasks, none of them open, has been
\* advanced, and nothing is being confirmed.
C17_Witness ==
  /\ last.op = "advance"
  /\ last.wrote
  /\ confirmAdvance[last.who] = {}
  /\ \E c \in cycles[last.who] :
       /\ c.id = last.cid
       /\ Cardinality(c.tasks) = Len(defaultTasks)
       /\ \A t \in c.tasks : t.status = "done"

\* ------------------------------------------------------------------- C18
\* A click on a task writes the successor of the status shown (todo for a
\* status outside the table), on that task only.
TaskClick ==
  last'.op = "toggle" =>
    /\ last'.to = IF last'.from = "todo" THEN "in_progress"
                  ELSE IF last'.from = "in_progress" THEN "done"
                  ELSE "todo"
    /\ \E t \in db["cycle_tasks"] :
         /\ t.id = last'.tid
         /\ db'["cycle_tasks"] =
              (db["cycle_tasks"] \ {t}) \cup {[t EXCEPT !.status = last'.to]}
    /\ Kept(RlsTables \ {"cycle_tasks"})

\* C18: a click writes the successor of the shown status on that task and
\* on nothing else, and the third of three consecutive clicks on a task writes
\* the status the task showed before the first.
C18_TaskCycle ==
  [][/\ TaskClick
     /\ (last'.op = "toggle" /\ last'.run = 3) => last'.to = last'.origin]_vars

\* C18 (amended): as C18, the three clicks being on a task whose status was
\* todo, in_progress or done.
C18_TaskCycleKnown ==
  [][/\ TaskClick
     /\ (last'.op = "toggle" /\ last'.run = 3
           /\ last'.origin \in {"todo", "in_progress", "done"})
          => /\ last'.to = last'.origin
             /\ StoredStatus(db', "cycle_tasks", last'.tid) = last'.origin]_vars

\* C18 (witness): the third click in a row has brought a task back to done.
C18_Witness ==
  /\ last.op = "toggle"
  /\ last.run = 3
  /\ last.origin = "done"
  /\ StoredStatus(db, "cycle_tasks", last.tid) = "done"

\* ------------------------------------------------------------------- C19
\* C19: submitTransaction with a blank category or an empty date writes
\* nothing and shows a message; otherwise, when its insert is accepted, it
\* adds exactly one transactions row, with status Received and the tenant of
\* the event, and nothing else in that step; when its insert is refused it
\* writes nothing, shows the error and does not go on to mark the event; an
\* event is marked posted only by the step that follows an accepted insert
\* of the same session for that event.
C19_PostOrdered ==
  [][/\ last'.op = "submit" =>
          LET blank == trim(last'.category) = << >> \/ last'.date = << >> IN
          /\ blank => ~last'.wrote
          /\ ~last'.wrote =>
               /\ db' = db
               /\ last'.error # {}
               /\ txSaving' = txSaving
          /\ last'.wrote =>
               /\ \E tx \in db'["transactions"] \ db["transactions"] :
                    /\ db'["transactions"] = db["transactions"] \cup {tx}
                    /\ tx.status = "Received"
                    /\ \A e \in Stored(db, "intake_events", last'.eid) :
                         tx.tenant_id = e.tenant_id
               /\ Kept(RlsTables \ {"transactions"})
               /\ txSaving'[last'.who] = {last'.eid}
     /\ (\E e \in db'["intake_events"] \ db["intake_events"] : e.status = "posted") =>
          /\ last'.op = "post"
          /\ txSaving[last'.who] = {last'.eid}
          /\ \A e \in db'["intake_events"] \ db["intake_events"] : e.id = last'.eid
     /\ \A s \in Sessions :
          (txSaving'[s] # txSaving[s] /\ txSaving'[s] # {}) =>
            last'.op = "submit" /\ last'.who = s /\ last'.wrote]_vars

\* C19 (witness): a form with a category and a date has been submitted, the
\* insert was refused, and the event is still stored as categorized.
C19_Witness ==
  /\ last.op = "submit"
  /\ ~last.wrote
  /\ trim(last.category) # << >>
  /\ last.date # << >>
  /\ StoredStatus(db, "intake_events", last.eid) = "categorized"

\* ------------------------------------------------------------------- C20
\* The share of a cycle's stored tasks that are done, as a rounded percentage.
TaskCompletion(d, cycleId) ==
  LET tasks == {t \in d["cycle_tasks"] : t.service_cycle_id = cycleId}
      done  == {t \in tasks : t.status = "done"}
  IN  IF tasks = {} THEN 0
      ELSE (200 * Cardinality(done) + Cardinality(tasks)) \div (2 * Cardinality(tasks))

RECURSIVE SumCompletion(_, _)
SumCompletion(d, cs) ==
  IF cs = {} THEN 0
  ELSE LET c == CHOOSE x \in cs : TRUE
       IN  TaskCompletion(d, c.id) + SumCompletion(d, cs \ {c})

\* C20: when the analytics page has loaded, the value charted as
\* "Completion %" for each cycle of the tenant in the last six months is the
\* percentage of that cycle's tasks that are done, and the "Cycle completion"
\* KPI is the rounded mean of these percentages, 0 when there is no cycle.
C20_CycleCompletion ==
  [][last'.op = "analytics" =>
       LET now == 12 * startOfMonth(clock).y + startOfMonth(clock).m
           cs  == {c \in db["service_cycles"] :
                     /\ c.tenant_id = last'.tenantId
                     /\ 12 * c.month.y + c.month.m >= now - 5
                     /\ 12 * c.month.y + c.month.m <= now}
       IN  /\ \A c \in cs :
                \E bar \in last'.chart :
                  /\ bar.month = DateOut(c.month)
                  /\ bar.value = TaskCompletion(db, c.id)
           /\ last'.avgCycleCompletion =
                IF cs = {} THEN 0
                ELSE (2 * SumCompletion(db, cs) + Cardinality(cs))
                       \div (2 * Cardinality(cs))]_vars

\* ------------------------------------------------------------------- C23
\* C23: with two sessions on the same cycle, every change that an advance, a
\* pause or a resume makes to a cycle's stored status is one step forward in
\* the order, or a pause of a cycle stored as neither paused nor delivered,
\* or a resume of a cycle stored as paused.
C23_StoredStatusMoves ==
  [][last'.op \in {"advance", "pause", "resume"} =>
       \A c \in db["service_cycles"] :
         LET old == c.status
             new == CycleStatus(db', c.id)
         IN  new # old =>
               \/ Position(old) >= 0 /\ Position(new) = Position(old) + 1
               \/ /\ last'.op = "pause"
                  /\ new = "paused" /\ old \notin {"paused", "delivered"}
               \/ last'.op = "resume" /\ old = "paused" /\ Position(new) >= 0]_vars

\* ------------------------------------------------------------------- C22
\* The tenants a user has a tenant_users row for.
TenantsOf(d, u) == {r.tenant_id : r \in {m \in d["tenant_users"] : m.user_id = u}}

\* C22: a statement through a user-level client leaves tenants and
\* tenant_users as they were, and the set of tenants a user is a member of
\* changes only in a step of the service role: POST /api/tenants or a
\* statement made by hand.
C22_NoSelfGrant ==
  [][/\ (last'.op \in DirectOps /\ last'.client.role = "authenticated")
          => Kept({"tenants", "tenant_users"})
     /\ (\E u \in Users : TenantsOf(db', u) # TenantsOf(db, u))
          => \/ last'.op = "create_tenant"
             \/ last'.op \in DirectOps /\ last'.client = ServiceRole]_vars

\* C22 (witness): a user who is no member of t2 has tried to insert an owner
\* row of their own for it and was refused.
C22_Witness ==
  /\ last.op = "insert" /\ last.tbl = "tenant_users"
  /\ last.client.role = "authenticated"
  /\ last.row = OwnerRow("t2", last.client.uid)
  /\ ~last.ok
  /\ "t2" \notin TenantsOf(db, last.client.uid)
  /\ \E t \in db["tenants"] : t.id = "t2"

\* ------------------------------------------------------------------- C21
\* A session's page state holds no row of any table.
NoData(s) ==
  /\ cycles[s] = {} /\ intake[s] = {}
  /\ homeRows[s].rows = {} /\ homeCycles[s] = Empty
  /\ "data" \in DOMAIN page[s] => \A tbl \in DOMAIN page[s].data : page[s].data[tbl] = {}

\* The steps in which a page issues its selects.
QueryOps == {"open", "home", "load"}

\* C21: a page under /app issues its selects only once auth.getUser() has
\* resolved with a user; its state takes rows only in that step; and when
\* getUser resolves with no user the page goes to /login, issues no select
\* and holds no row.
C21_AuthGuard ==
  [][\A s \in Sessions :
       LET queries == last'.op \in QueryOps /\ last'.who = s IN
       /\ queries => /\ "step" \in DOMAIN page[s]
                     /\ page[s].step = "queries"
                     /\ page[s].user # {}
       /\ (NoData(s) /\ ~NoData(s)') => queries
       /\ (last'.op = "getUser" /\ last'.who = s /\ last'.user = {})
            => /\ page'[s] = [kind |-> "login", tenantId |-> None]
               /\ NoData(s)'
               /\ ~queries]_vars

\* C21 (witness): the tenant page of t1 was opened by its owner's browser
\* with no user signed in: it went to /login with nothing loaded, though t1
\* has a cycle the owner could read.
C21_Witness ==
  /\ last.op = "getUser" /\ last.who = "s1" /\ last.user = {}
  /\ last.kind = "tenant" /\ last.tenantId = "t1"
  /\ page["s1"].kind = "login"
  /\ NoData("s1")
  /\ EnrichedCycles(db, "s1", "t1") # {}

====
